---- MODULE Spec2Model ----
(***************************************************************************)
(* Order pricing, coupon application, stock ledger and payment             *)
(* confirmation of the shoe-store backend (services/OrderService.js with   *)
(* the Product, Coupon and Order models).                                  *)
(*                                                                         *)
(* Every request is a unit of work that is suspended at each `await`; one  *)
(* action of the model is the code between two suspension points, so the   *)
(* interleavings of the model are the interleavings of concurrent          *)
(* requests against the shared document store.                             *)
(*                                                                         *)
(* Amounts are whole currency units; the catalog prices are multiples of   *)
(* 100 so that `subtotal * value / 100` is exact for integer percentages.  *)
(***************************************************************************)
EXTENDS Integers, Sequences, FiniteSets, TLC

VARIABLES
    products,   \* Product collection: id -> document
    coupons,    \* Coupon collection: code -> document
    orders,     \* Order collection, in insertion order (index = _id)
    loc,        \* per request slot: position and local variables of the handler
    lastCalc,   \* inputs and result of the latest validateAndCalculateOrder call
    last,       \* outcome of the latest finished request
    applied,    \* per order: how often each line's stock decrement and the coupon
                \* usage were committed, and how many confirmations returned
    refunds,    \* per order: number of gateway refunds made
    started     \* number of requests begun

vars == <<products, coupons, orders, loc, lastCalc, last, applied, refunds, started>>

----------------------------------------------------------------------------
(* Bounds *)

MaxOrders == 2          \* orders stored in one run
InitialStock == 2       \* stock of the first variant at start
MaxRequests == 2        \* requests begun in one run

Procs == {1, 2}         \* concurrently running requests
Clock == 0..3           \* times at which a pricing preview is requested
Users == {"u1", "u2"}
Buyers == {"u1"}        \* users placing orders in the runs of the order workflow

----------------------------------------------------------------------------
(* JavaScript values *)

\* `null` (schema default of an optional number) and `undefined` (read of a
\* property the schema does not define), kept apart from every number used.
Null == -1000
Undefined == -2000

\* document property read: a path the schema does not define reads undefined
Field(doc, f) == IF f \in DOMAIN doc THEN doc[f] ELSE Undefined

\* truthiness of an optional number
Truthy(x) == x \notin {Null, Undefined, 0}

\* a >= b on optional numbers: undefined converts to NaN and compares false,
\* null converts to 0
ToNumber(x) == IF x = Null THEN 0 ELSE x
JsGE(a, b) == a # Undefined /\ b # Undefined /\ ToNumber(a) >= ToNumber(b)
JsLT(a, b) == a # Undefined /\ b # Undefined /\ ToNumber(a) < ToNumber(b)

Min(a, b) == IF a <= b THEN a ELSE b
Max(a, b) == IF a >= b THEN a ELSE b

\* parseFloat on the size strings the storefront sends
ParseFloat(s) == CASE s = "42" -> 42 [] s = "43" -> 43 [] OTHER -> Undefined

\* String.prototype.toLowerCase on the colour names in use
ToLowerCase(s) == CASE s = "Red" -> "red" [] s = "Blue" -> "blue" [] OTHER -> s

RECURSIVE SumSeq(_)
SumSeq(s) == IF s = <<>> THEN 0 ELSE Head(s) + SumSeq(Tail(s))

----------------------------------------------------------------------------
(* Catalog, delivery table, coupons *)

ProductIds == {"p1"}

\* stockVariantSchema / productSchema
InitialProduct ==
    [ present       |-> TRUE,
      name          |-> "Runner",
      price         |-> 1000,
      stockVariants |-> << [size |-> 42, color |-> "Red",  stock |-> InitialStock],
                           [size |-> 43, color |-> "Blue", stock |-> 1] >>,
      totalStock    |-> InitialStock + 1 ]

\* Product.findById(...) of a deleted product resolves to null
NoProduct == [present |-> FALSE]

\* Method to get stock for specific size and color
VariantIndex(product, size, color) ==
    LET hits == { k \in DOMAIN product.stockVariants :
                    /\ product.stockVariants[k].size = size
                    /\ ToLowerCase(product.stockVariants[k].color) = ToLowerCase(color) }
    IN  IF hits = {} THEN 0 ELSE CHOOSE k \in hits : \A j \in hits : k <= j

getStockForVariant(product, size, color) ==
    LET k == VariantIndex(product, size, color)
    IN  IF k = 0 THEN 0 ELSE product.stockVariants[k].stock

TotalOf(variants) == SumSeq([k \in DOMAIN variants |-> variants[k].stock])

\* Method to update stock for specific variant: the changed document, or the
\* unchanged one when the variant does not exist (return value false)
updateVariantStock(product, size, color, newStock) ==
    LET k == VariantIndex(product, size, color)
    IN  IF k = 0 THEN product
        ELSE LET sv == [product.stockVariants EXCEPT ![k].stock = newStock]
             IN  [product EXCEPT !.stockVariants = sv, !.totalStock = TotalOf(sv)]

updateVariantStockSuccess(product, size, color) ==
    VariantIndex(product, size, color) # 0

\* DeliveryCharge collection, keyed by lower-cased city; absent -> default
DeliveryCharges == [mumbai |-> 30]
DefaultDeliveryCharge == 50
Cities == {"Mumbai", "Pune"}
CityKey(c) == CASE c = "Mumbai" -> "mumbai" [] c = "Pune" -> "pune" [] OTHER -> c

DeliveryChargeFor(city) ==
    IF CityKey(city) \in DOMAIN DeliveryCharges
    THEN DeliveryCharges[CityKey(city)] ELSE DefaultDeliveryCharge

CouponCodes == {"SAVE"}

\* couponSchema: the stored paths of a coupon document
CouponDoc(type, value, maxDisc, minOrder, limit, userLimit) ==
    [ code                  |-> "SAVE",
      type                  |-> type,
      value                 |-> value,
      minimumOrderAmount    |-> minOrder,
      maximumDiscountAmount |-> maxDisc,
      usageLimit            |-> limit,
      usageCount            |-> 0,
      userUsageLimit        |-> userLimit,
      validFrom             |-> 1,
      validUntil            |-> 2,
      isActive              |-> TRUE,
      usedBy                |-> <<>> ]

\* coupons an administrator can have created (createCoupon validation:
\* a percentage lies in 0..100, userUsageLimit defaults to 1)
CouponConfigs ==
    { CouponDoc("PERCENTAGE", 10, Null, 0, 1, 1),
      CouponDoc("PERCENTAGE", 100, 150, 0, Null, 1),
      CouponDoc("PERCENTAGE", 10, 0, 0, Null, 1),
      CouponDoc("FIXED_AMOUNT", 500, Null, 0, 1, 1),
      CouponDoc("FIXED_AMOUNT", 1500, Null, 0, Null, 1),
      CouponDoc("FREE_SHIPPING", 0, Null, 3000, 1, 1),
      CouponDoc("FREE_SHIPPING", 0, Null, 0, 1, 1) }

\* the coupon of the store in the runs of the order workflow
StoreCoupons ==
    { CouponDoc("PERCENTAGE", 10, Null, 0, 1, 1),
      CouponDoc("FIXED_AMOUNT", 1500, Null, 0, Null, 1),
      CouponDoc("FREE_SHIPPING", 0, Null, 0, 1, 1) }

----------------------------------------------------------------------------
(* Requests *)

Item(size, color, quantity) ==
    [id |-> "p1", size |-> size, color |-> color, quantity |-> quantity]

\* carts the storefront sends: [{ _id, size, color, quantity }]
Carts ==
    { << Item("42", "red", 1) >>,
      << Item("42", "Red", 1), Item("43", "blue", 1) >> }

\* carts priced by the preview
PreviewCarts ==
    Carts \cup { << Item("43", "Blue", 1) >>, << Item("42", "red", InitialStock) >>,
                 << Item("42", "red", InitialStock), Item("43", "Blue", 1) >>,
                 << Item("42", "red", InitialStock), Item("43", "Blue", 2) >>,
                 << Item("42", "red", InitialStock + 1) >>,
                 << Item("43", "Blue", 0) >>, <<>> }

NoCode == "none"

\* a cart with the coupon code entered at checkout
Checkouts ==
    { << << Item("42", "red", 1) >>, "SAVE" >>,
      << << Item("42", "Red", 1), Item("43", "blue", 1) >>, NoCode >> }

\* checkouts that cannot be priced: no item, no product id, no size, a
\* quantity of zero, a product or a variant the catalog does not have, more
\* than the stock, a coupon code the store does not have
RejectedCheckouts ==
    { << <<>>, NoCode >>,
      << << [Item("42", "red", 1) EXCEPT !.id = ""] >>, NoCode >>,
      << << Item("", "red", 1) >>, NoCode >>,
      << << Item("42", "red", 0) >>, NoCode >>,
      << << [Item("42", "red", 1) EXCEPT !.id = "p9"] >>, NoCode >>,
      << << Item("42", "Blue", 1) >>, NoCode >>,
      << << Item("42", "red", 1), Item("43", "blue", 2) >>, NoCode >>,
      << << Item("42", "red", 1) >>, "GONE" >> }

ShippingCities == {"Pune"}

----------------------------------------------------------------------------
(* OrderService.validateAndCalculateOrder *)

\* variant: a request for exactly the available stock counts as a shortfall
InsufficientStockInclusive(availableStock, quantity) == availableStock <= quantity

\* if (availableStock < item.quantity)
InsufficientStock(availableStock, quantity) == availableStock < quantity

\* the checks of one cart line, in the order of the loop body; "" = accepted
ItemError(item) ==
    LET product == products[item.id]
    IN  IF item.id = "" \/ item.quantity <= 0 THEN "InvalidItem"
        ELSE IF item.size = "" \/ item.color = "" THEN "MissingSizeColor"
        ELSE IF item.id \notin DOMAIN products THEN "ProductNotFound"
        ELSE IF ~product.present THEN "ProductNotFound"
        ELSE IF Len(product.stockVariants) = 0 THEN "NoStockConfig"
        ELSE IF VariantIndex(product, ParseFloat(item.size), item.color) = 0
             THEN "VariantNotFound"
        ELSE IF InsufficientStock(getStockForVariant(product, ParseFloat(item.size),
                                                     item.color), item.quantity)
             THEN "InsufficientStock"
        ELSE ""

\* the loop throws at the first line that fails
FirstItemError(items) ==
    LET bad == { k \in DOMAIN items : ItemError(items[k]) # "" }
    IN  IF bad = {} THEN ""
        ELSE ItemError(items[CHOOSE k \in bad : \A j \in bad : k <= j])

validatedItems(items) ==
    [ k \in DOMAIN items |->
        [ productId |-> items[k].id,
          size      |-> items[k].size,
          color     |-> items[k].color,
          quantity  |-> items[k].quantity,
          price     |-> products[items[k].id].price ] ]

Subtotal(items) ==
    SumSeq([k \in DOMAIN items |-> products[items[k].id].price * items[k].quantity])

\* coupon.usedBy.filter(u => u.userId.toString() === userId.toString()).length
userCouponUses(coupon, userId) ==
    Cardinality({ k \in DOMAIN coupon.usedBy : coupon.usedBy[k].userId = userId })

\* the rejections of the coupon block, in order; "" = accepted
CouponError(coupon, subtotal, userId, now) ==
    IF Truthy(Field(coupon, "minPurchaseAmount"))
          /\ JsLT(subtotal, Field(coupon, "minPurchaseAmount"))
    THEN "CouponMinPurchase"
    ELSE IF Truthy(Field(coupon, "usageLimitPerUser"))
          /\ JsGE(userCouponUses(coupon, userId), Field(coupon, "usageLimitPerUser"))
    THEN "CouponUserLimit"
    ELSE IF Truthy(Field(coupon, "usageLimit"))
          /\ JsGE(Field(coupon, "usedCount"), Field(coupon, "usageLimit"))
    THEN "CouponGlobalLimit"
    ELSE IF Truthy(Field(coupon, "expirationDate"))
          /\ now > Field(coupon, "expirationDate")
    THEN "CouponExpired"
    ELSE ""

\* discount of a PERCENTAGE coupon before the final clamp to the subtotal
PercentageDiscount(coupon, subtotal) ==
    LET d == (subtotal * coupon.value) \div 100
    IN  IF Truthy(Field(coupon, "maximumDiscountAmount"))
        THEN Min(d, coupon.maximumDiscountAmount) ELSE d

\* discountAmount as assigned in the branch of the coupon's type
TypeDiscount(coupon, subtotal) ==
    CASE coupon.type = "PERCENTAGE"   -> PercentageDiscount(coupon, subtotal)
      [] coupon.type = "FIXED_AMOUNT" -> Min(coupon.value, subtotal)
      [] OTHER                        -> 0

\* discountAmount = Math.min(discountAmount, subtotal)
ClampDiscount(discount, subtotal) == Min(discount, subtotal)

DeliveryDiscount(coupon, deliveryCharge) ==
    IF coupon.type = "FREE_SHIPPING" THEN deliveryCharge ELSE 0

NoCouponUsed ==
    [ couponId |-> NoCode, type |-> "none", value |-> 0,
      discountAmount |-> 0, discountOnDelivery |-> 0 ]

CouponUsed(coupon, subtotal, deliveryCharge) ==
    [ couponId           |-> coupon.code,
      type               |-> coupon.type,
      value              |-> IF coupon.type = "FREE_SHIPPING" THEN deliveryCharge
                             ELSE coupon.value,
      discountAmount     |-> TypeDiscount(coupon, subtotal),
      discountOnDelivery |-> DeliveryDiscount(coupon, deliveryCharge) ]

\* Math.max(0, subtotal - discountAmount + deliveryCharge - discountOnDelivery)
\* variant: the discount on delivery is not subtracted
TotalAmountKeepingDelivery(subtotal, discountAmount, deliveryCharge, discountOnDelivery) ==
    Max(0, subtotal - discountAmount + deliveryCharge)

TotalAmount(subtotal, discountAmount, deliveryCharge, discountOnDelivery) ==
    Max(0, subtotal - discountAmount + deliveryCharge - discountOnDelivery)

\* variant: the error is not thrown and the zero calculation is returned
RejectedQuietly(error) ==
    [ ok |-> TRUE, error |-> error, items |-> <<>>, subtotal |-> 0,
      deliveryCharge |-> 0, discountAmount |-> 0, discountOnDelivery |-> 0,
      totalAmount |-> 0, couponUsed |-> NoCouponUsed ]

\* throw new Error(...): no calculation is returned
Rejected(error) ==
    [ ok |-> FALSE, error |-> error, items |-> <<>>, subtotal |-> 0,
      deliveryCharge |-> 0, discountAmount |-> 0, discountOnDelivery |-> 0,
      totalAmount |-> 0, couponUsed |-> NoCouponUsed ]

\* Coupon.findOne({ code: couponCode, isActive: true })
FindActiveCoupon(code) ==
    code \in DOMAIN coupons /\ coupons[code].isActive

validateAndCalculateOrder(items, city, couponCode, userId, now) ==
    IF Len(items) = 0 THEN Rejected("EmptyOrder")
    ELSE IF FirstItemError(items) # "" THEN Rejected(FirstItemError(items))
    ELSE
      LET subtotal       == Subtotal(items)
          deliveryCharge == DeliveryChargeFor(city)
      IN  IF couponCode = NoCode
          THEN [ ok |-> TRUE, error |-> "", items |-> validatedItems(items),
                 subtotal |-> subtotal, deliveryCharge |-> deliveryCharge,
                 discountAmount |-> 0, discountOnDelivery |-> 0,
                 totalAmount |-> TotalAmount(subtotal, 0, deliveryCharge, 0),
                 couponUsed |-> NoCouponUsed ]
          ELSE IF ~FindActiveCoupon(couponCode) THEN Rejected("InvalidCoupon")
          ELSE
            LET coupon == coupons[couponCode]
                err    == CouponError(coupon, subtotal, userId, now)
                disc   == ClampDiscount(TypeDiscount(coupon, subtotal), subtotal)
                dod    == DeliveryDiscount(coupon, deliveryCharge)
            IN  IF err # "" THEN Rejected(err)
                ELSE [ ok |-> TRUE, error |-> "", items |-> validatedItems(items),
                       subtotal |-> subtotal, deliveryCharge |-> deliveryCharge,
                       discountAmount |-> disc, discountOnDelivery |-> dod,
                       totalAmount |-> TotalAmount(subtotal, disc, deliveryCharge, dod),
                       couponUsed |-> CouponUsed(coupon, subtotal, deliveryCharge) ]

----------------------------------------------------------------------------
(* Payment gateway *)

\* HMAC-SHA256 over `${razorpayOrderId}|${razorpayPaymentId}`, hex encoded
Hmac(secret, body) == <<"hmac-sha256", secret, body>>
KeySecret == "RAZORPAY_KEY_SECRET"
SignedBody(razorpayOrderId, razorpayPaymentId) == <<razorpayOrderId, "|", razorpayPaymentId>>

\* variant: any HMAC over the two identifiers is accepted, whatever its secret
verifyPaymentSignatureAnySecret(razorpayOrderId, razorpayPaymentId, razorpaySignature) ==
    \E secret \in {KeySecret, "wrong-secret"} :
        Hmac(secret, SignedBody(razorpayOrderId, razorpayPaymentId)) = razorpaySignature

\* PaymentService.verifyPaymentSignature
verifyPaymentSignature(razorpayOrderId, razorpayPaymentId, razorpaySignature) ==
    Hmac(KeySecret, SignedBody(razorpayOrderId, razorpayPaymentId)) = razorpaySignature

GatewayOrderIds == {"rzp1"}
GatewayPaymentIds == {"pay1"}

Gateway(orderId, paymentId, secret) ==
    [ razorpayOrderId   |-> orderId,
      razorpayPaymentId |-> paymentId,
      razorpaySignature |-> Hmac(secret, SignedBody(orderId, paymentId)) ]

\* callback payloads: signed by the gateway, or with a signature computed
\* from another secret
GatewayPayloads ==
    { Gateway(o, q, s) : o \in GatewayOrderIds, q \in GatewayPaymentIds,
                         s \in {KeySecret, "wrong-secret"} }

NoGateway ==
    [ razorpayOrderId |-> "", razorpayPaymentId |-> "", razorpaySignature |-> <<>> ]

----------------------------------------------------------------------------
(* Documents and handler-local state *)

\* orderSchema / paymentSchema (payment sub-document flattened)
OrderDoc(userId, calc, method) ==
    [ userId             |-> userId,
      items              |-> calc.items,
      subtotal           |-> calc.subtotal,
      deliveryCharge     |-> calc.deliveryCharge,
      discountAmount     |-> calc.discountAmount,
      discountOnDelivery |-> calc.discountOnDelivery,
      totalAmount        |-> calc.totalAmount,
      couponUsed         |-> calc.couponUsed,
      method             |-> method,
      paymentStatus      |-> "PENDING",
      razorpayOrderId    |-> "",
      razorpayPaymentId  |-> "",
      failureReason      |-> "",
      status             |-> "PENDING",
      confirmedAt        |-> Null,
      shippedAt          |-> Null,
      deliveredAt        |-> Null,
      cancelledAt        |-> Null,
      createdAt          |-> Null ]

NoOrder == [present |-> FALSE]

\* document.save(): only the paths the handler modified are written
SaveModified(stored, orig, doc) ==
    [f \in DOMAIN stored |-> IF doc[f] # orig[f] THEN doc[f] ELSE stored[f]]

NoCalc == Rejected("")

Idle ==
    [ op |-> "idle", pc |-> "idle", userId |-> "", calc |-> NoCalc, oid |-> 0,
      order |-> NoOrder, orig |-> NoOrder, i |-> 0, found |-> <<>>,
      product |-> NoProduct, prodRead |-> NoProduct ]

NoOutcome == [op |-> "none", oid |-> 0, result |-> "none"]
Outcome(op, oid, result) == [op |-> op, oid |-> oid, result |-> result]

\* the calculation the pricing call just returned, with what it was asked
Priced(items, couponCode, userId, now, calc) ==
    [ called |-> TRUE, items |-> items, couponCode |-> couponCode,
      userId |-> userId, now |-> now, calc |-> calc,
      coupon |-> IF couponCode \in DOMAIN coupons THEN coupons[couponCode]
                 ELSE CouponDoc("none", 0, Null, 0, Null, 1) ]
NotPriced ==
    [ called |-> FALSE, items |-> <<>>, couponCode |-> NoCode, userId |-> "",
      now |-> 0, calc |-> NoCalc, coupon |-> CouponDoc("none", 0, Null, 0, Null, 1) ]

NoneApplied(items) ==
    [dec |-> [k \in DOMAIN items |-> 0], coupon |-> 0, confirms |-> 0]

----------------------------------------------------------------------------
(* Initial state *)

\* times are minutes; the run starts at minute 0 and every request begun
\* takes the clock one minute further
LongAgo == -60

\* an order awaiting its gateway callback: payment PENDING, status PENDING,
\* carrying the gateway order id the callback will name
PendingGatewayOrder(calc) ==
    [OrderDoc("u1", calc, "RAZORPAY") EXCEPT !.razorpayOrderId = "rzp1",
                                             !.createdAt = LongAgo]

SeedCart == << Item("42", "red", 1) >>

Init ==
    /\ products = [id \in ProductIds |-> InitialProduct]
    /\ \E c \in StoreCoupons : coupons = [code \in CouponCodes |-> c]
    /\ loc = [p \in Procs |-> Idle]
    /\ lastCalc = NotPriced
    /\ last = NoOutcome
    /\ started = 0
    /\ \E seeded \in BOOLEAN :
         LET withCoupon == validateAndCalculateOrder(SeedCart, "Pune", "SAVE", "u1", 0)
             plain      == validateAndCalculateOrder(SeedCart, "Pune", NoCode, "u1", 0)
             calc       == IF withCoupon.ok THEN withCoupon ELSE plain
         IN  IF seeded
             THEN /\ orders = << PendingGatewayOrder(calc) >>
                  /\ applied = << NoneApplied(calc.items) >>
                  /\ refunds = << 0 >>
             ELSE /\ orders = <<>>
                  /\ applied = <<>>
                  /\ refunds = <<>>

----------------------------------------------------------------------------
(* Steps shared by the handlers *)

\* new Date() in a request: one tick per request begun
RequestTime == started + 1

InFlight(op) == Cardinality({p \in Procs : loc[p].op = op})

\* a request is taken up by the first free slot (the slots are interchangeable)
FreeSlot(p) ==
    /\ loc[p].op = "idle"
    /\ \A q \in Procs : q < p => loc[q].op # "idle"

CanBegin(p) ==
    /\ started < MaxRequests
    /\ FreeSlot(p)

\* the handler returns or throws: the slot is free again
Finish(p, result) ==
    /\ loc' = [loc EXCEPT ![p] = Idle]
    /\ last' = Outcome(loc[p].op, loc[p].oid, result)

\* where the handler goes after the stock loop handled line i of `items`
AfterItem(p, items, hasCoupon, afterLoop) ==
    IF loc[p].i < Len(items)
    THEN [loc[p] EXCEPT !.pc = "readProduct", !.i = loc[p].i + 1,
                        !.product = NoProduct, !.prodRead = NoProduct]
    ELSE [loc[p] EXCEPT !.pc = IF hasCoupon THEN "coupon" ELSE afterLoop,
                        !.product = NoProduct, !.prodRead = NoProduct]

\* Product.findById(...), getStockForVariant, updateVariantStock on the copy
ReadProduct(p, items, hasCoupon, afterLoop) ==
    LET item    == items[loc[p].i]
        product == products[item.productId]
        size    == ParseFloat(item.size)
    IN  /\ loc[p].pc = "readProduct"
        /\ IF product.present /\ updateVariantStockSuccess(product, size, item.color)
           THEN loc' = [loc EXCEPT ![p] =
                   [loc[p] EXCEPT
                      !.pc = "saveProduct",
                      !.prodRead = product,
                      !.product = updateVariantStock(product, size, item.color,
                          getStockForVariant(product, size, item.color) - item.quantity)]]
           ELSE loc' = [loc EXCEPT ![p] = AfterItem(p, items, hasCoupon, afterLoop)]
        /\ last' = NoOutcome
        /\ UNCHANGED <<lastCalc, started>>
        /\ UNCHANGED <<products, coupons, orders, applied, refunds>>

\* variant: the stock has no minimum
StockValidAlways(product) == TRUE

\* stock: { min: 0 } is validated on save
StockValid(product) ==
    \A k \in DOMAIN product.stockVariants : product.stockVariants[k].stock >= 0

\* the stored product after product.save(): the modified variant stocks and,
\* when it changed, totalStock (recomputed by the pre-save hook)
SavedProduct(stored, read, doc) ==
    [stored EXCEPT
       !.stockVariants = [k \in DOMAIN stored.stockVariants |->
            IF doc.stockVariants[k].stock # read.stockVariants[k].stock
            THEN [stored.stockVariants[k] EXCEPT !.stock = doc.stockVariants[k].stock]
            ELSE stored.stockVariants[k]],
       !.totalStock = IF TotalOf(doc.stockVariants) # read.totalStock
                      THEN TotalOf(doc.stockVariants) ELSE stored.totalStock]

\* await product.save()
SaveProduct(p, items, hasCoupon, afterLoop) ==
    LET item == items[loc[p].i]
        id   == item.productId
    IN  /\ loc[p].pc = "saveProduct"
        /\ UNCHANGED <<lastCalc, started>>
        /\ IF ~products[id].present
           THEN /\ Finish(p, "DocumentNotFoundError")
                /\ UNCHANGED <<products, applied>>
           ELSE IF ~StockValid(loc[p].product)
           THEN /\ Finish(p, "ValidationError")
                /\ UNCHANGED <<products, applied>>
           ELSE /\ products' = [products EXCEPT
                       ![id] = SavedProduct(products[id], loc[p].prodRead, loc[p].product)]
                /\ applied' = [applied EXCEPT ![loc[p].oid].dec[loc[p].i] = @ + 1]
                /\ loc' = [loc EXCEPT ![p] = AfterItem(p, items, hasCoupon, afterLoop)]
                /\ last' = NoOutcome
        /\ UNCHANGED <<coupons, orders, refunds>>

\* coupon.usedCount += 1 on a path the schema does not define is not stored;
\* coupon.usedBy.push({ userId, orderId }) stores a usedBy entry with the
\* schema's default usageCount
PushUsage(coupon, userId) ==
    [coupon EXCEPT !.usedBy = Append(@, [userId |-> userId, usageCount |-> 0])]

\* Coupon.findById(...), then coupon.save()
UpdateCouponUsage(p, couponUsed, userId) ==
    /\ loc[p].pc = "coupon"
    /\ IF couponUsed.couponId \in DOMAIN coupons
       THEN /\ coupons' = [coupons EXCEPT
                   ![couponUsed.couponId] = PushUsage(@, userId)]
            /\ applied' = [applied EXCEPT ![loc[p].oid].coupon = @ + 1]
       ELSE UNCHANGED <<coupons, applied>>
    /\ UNCHANGED <<lastCalc, started>>
    /\ UNCHANGED <<products, orders, refunds>>

HasCoupon(couponUsed) == couponUsed.couponId # NoCode

----------------------------------------------------------------------------
(* OrderService.createOrder *)

\* validateAndCalculateOrder, the order object, the signature check
createOrderBegin(p, items, city, paymentMethod, couponCode, userId, gw) ==
    LET calc     == validateAndCalculateOrder(items, city, couponCode, userId,
                                              RequestTime)
        verified == /\ paymentMethod = "RAZORPAY"
                    /\ gw # NoGateway
        orderObj == IF verified
                    THEN [OrderDoc(userId, calc, paymentMethod) EXCEPT
                            !.razorpayOrderId = gw.razorpayOrderId,
                            !.razorpayPaymentId = gw.razorpayPaymentId,
                            !.paymentStatus = "PAID",
                            !.status = "CONFIRMED",
                            !.confirmedAt = RequestTime]
                    ELSE OrderDoc(userId, calc, paymentMethod)
    IN  /\ CanBegin(p)
        /\ Len(orders) + InFlight("createOrder") < MaxOrders
        /\ started' = started + 1
        /\ UNCHANGED lastCalc
        /\ IF ~calc.ok
           THEN /\ loc' = loc
                /\ last' = Outcome("createOrder", 0, calc.error)
           ELSE IF verified /\ ~verifyPaymentSignature(gw.razorpayOrderId,
                                   gw.razorpayPaymentId, gw.razorpaySignature)
           THEN /\ loc' = loc
                /\ last' = Outcome("createOrder", 0, "SignatureError")
           ELSE /\ loc' = [loc EXCEPT ![p] =
                      [Idle EXCEPT !.op = "createOrder", !.pc = "saveOrder",
                                   !.userId = userId, !.calc = calc,
                                   !.order = orderObj]]
                /\ last' = NoOutcome
        /\ UNCHANGED <<products, coupons, orders, applied, refunds>>

\* await order.save(); stock and coupon usage only for confirmed or COD orders
createOrderSave(p) ==
    LET order == loc[p].order
        oid   == Len(orders) + 1
    IN  /\ loc[p].op = "createOrder"
        /\ loc[p].pc = "saveOrder"
        /\ orders' = Append(orders, [order EXCEPT !.createdAt = started])
        /\ applied' = Append(applied, NoneApplied(order.items))
        /\ refunds' = Append(refunds, 0)
        /\ UNCHANGED <<lastCalc, started>>
        /\ IF order.status = "CONFIRMED" \/ order.method = "COD"
           THEN /\ loc' = [loc EXCEPT ![p] =
                      [loc[p] EXCEPT !.pc = "readProduct", !.oid = oid, !.i = 1]]
                /\ last' = NoOutcome
           ELSE /\ loc' = [loc EXCEPT ![p] = Idle]
                /\ last' = Outcome("createOrder", oid, "ok")
        /\ UNCHANGED <<products, coupons>>

createOrderReadProduct(p) ==
    /\ loc[p].op = "createOrder"
    /\ ReadProduct(p, loc[p].calc.items, HasCoupon(loc[p].calc.couponUsed), "done")

createOrderSaveProduct(p) ==
    /\ loc[p].op = "createOrder"
    /\ SaveProduct(p, loc[p].calc.items, HasCoupon(loc[p].calc.couponUsed), "done")

createOrderCoupon(p) ==
    /\ loc[p].op = "createOrder"
    /\ UpdateCouponUsage(p, loc[p].calc.couponUsed, loc[p].userId)
    /\ Finish(p, "ok")

\* return Order.findById(order._id)
createOrderReturn(p) ==
    /\ loc[p].op = "createOrder"
    /\ loc[p].pc = "done"
    /\ Finish(p, "ok")
    /\ UNCHANGED <<lastCalc, started>>
    /\ UNCHANGED <<products, coupons, orders, applied, refunds>>

----------------------------------------------------------------------------
(* OrderService.confirmPayment *)

\* Order.findOne({ 'payment.razorpayOrderId': razorpayOrderId })
FindByGatewayOrderId(razorpayOrderId) ==
    LET hits == { k \in DOMAIN orders : orders[k].razorpayOrderId = razorpayOrderId }
    IN  IF hits = {} THEN 0 ELSE CHOOSE k \in hits : \A j \in hits : k <= j

\* variant: the payment is marked FAILED without a failure reason
MarkPaymentFailedSilently(order) ==
    [order EXCEPT !.paymentStatus = "FAILED"]

\* order.payment.status = 'FAILED' with the failure reason
MarkPaymentFailed(order) ==
    [order EXCEPT !.paymentStatus = "FAILED",
                  !.failureReason = "Invalid payment signature"]

\* order.payment.status = 'PAID'; order.status = 'CONFIRMED'; the payment id;
\* order.confirmedAt = new Date() (paidAt is not a path of orderSchema)
MarkPaid(order, gw, now) ==
    [order EXCEPT !.paymentStatus = "PAID",
                  !.status = "CONFIRMED",
                  !.razorpayPaymentId = gw.razorpayPaymentId,
                  !.confirmedAt = now]

\* the order found, the signature check, the status fields set on the copy
confirmPaymentBegin(p, gw) ==
    LET oid   == FindByGatewayOrderId(gw.razorpayOrderId)
        order == orders[oid]
    IN  /\ CanBegin(p)
        /\ started' = started + 1
        /\ UNCHANGED lastCalc
        /\ IF oid = 0
           THEN /\ loc' = loc
                /\ last' = Outcome("confirmPayment", 0, "OrderNotFound")
           ELSE IF ~verifyPaymentSignature(gw.razorpayOrderId, gw.razorpayPaymentId,
                                           gw.razorpaySignature)
           THEN /\ loc' = [loc EXCEPT ![p] =
                      [Idle EXCEPT !.op = "confirmPayment", !.pc = "saveFailed",
                                   !.oid = oid, !.orig = order,
                                   !.order = MarkPaymentFailed(order)]]
                /\ last' = NoOutcome
           ELSE /\ loc' = [loc EXCEPT ![p] =
                      [Idle EXCEPT !.op = "confirmPayment", !.pc = "readProduct",
                                   !.oid = oid, !.orig = order, !.i = 1,
                                   !.order = MarkPaid(order, gw, RequestTime)]]
                /\ last' = NoOutcome
        /\ UNCHANGED <<products, coupons, orders, applied, refunds>>

\* await order.save(); throw new Error('Invalid payment signature.')
confirmPaymentSaveFailed(p) ==
    /\ loc[p].op = "confirmPayment"
    /\ loc[p].pc = "saveFailed"
    /\ orders' = [orders EXCEPT
          ![loc[p].oid] = SaveModified(@, loc[p].orig, loc[p].order)]
    /\ Finish(p, "InvalidSignature")
    /\ UNCHANGED <<lastCalc, started>>
    /\ UNCHANGED <<products, coupons, applied, refunds>>

confirmPaymentReadProduct(p) ==
    /\ loc[p].op = "confirmPayment"
    /\ ReadProduct(p, loc[p].order.items, HasCoupon(loc[p].order.couponUsed), "saveOrder")

confirmPaymentSaveProduct(p) ==
    /\ loc[p].op = "confirmPayment"
    /\ SaveProduct(p, loc[p].order.items, HasCoupon(loc[p].order.couponUsed), "saveOrder")

confirmPaymentCoupon(p) ==
    /\ loc[p].op = "confirmPayment"
    /\ UpdateCouponUsage(p, loc[p].order.couponUsed, loc[p].order.userId)
    /\ loc' = [loc EXCEPT ![p] = [loc[p] EXCEPT !.pc = "saveOrder"]]
    /\ last' = NoOutcome

\* await order.save(); return order
confirmPaymentSave(p) ==
    /\ loc[p].op = "confirmPayment"
    /\ loc[p].pc = "saveOrder"
    /\ orders' = [orders EXCEPT
          ![loc[p].oid] = SaveModified(@, loc[p].orig, loc[p].order)]
    /\ applied' = [applied EXCEPT ![loc[p].oid].confirms = @ + 1]
    /\ Finish(p, "ok")
    /\ UNCHANGED <<lastCalc, started>>
    /\ UNCHANGED <<products, coupons, refunds>>

----------------------------------------------------------------------------
(* Order controllers: createOrder, verifyPayment *)

\* variant: no payment method is sent to the gateway first
UsesGatewayNever(paymentMethod) == FALSE

\* if (paymentMethod === 'RAZORPAY')
UsesGateway(paymentMethod) == paymentMethod = "RAZORPAY"

\* createOrder controller: for a gateway payment it prices the cart, asks the
\* gateway for a payment intent and answers with the intent (or the failure)
\* without calling the order service; otherwise the service creates the order
createOrderRequest(p, items, city, paymentMethod, couponCode, userId, intentCreated) ==
    LET calc == validateAndCalculateOrder(items, city, couponCode, userId, RequestTime)
    IN  IF UsesGateway(paymentMethod)
        THEN /\ CanBegin(p)
             /\ started' = started + 1
             /\ last' = Outcome("createOrderRequest", 0,
                           IF ~calc.ok THEN calc.error
                           ELSE IF calc.totalAmount <= 0 THEN "InvalidAmount"
                           ELSE IF intentCreated THEN "PaymentInitiated"
                           ELSE "IntentFailed")
             /\ UNCHANGED <<products, coupons, orders, loc, lastCalc, applied, refunds>>
        ELSE /\ intentCreated
             /\ createOrderBegin(p, items, city, paymentMethod, couponCode, userId,
                                 NoGateway)

\* verifyPayment controller: the order service creates the order with the
\* gateway details of the payment
verifyPayment(p, items, city, couponCode, userId, gw) ==
    createOrderBegin(p, items, city, "RAZORPAY", couponCode, userId, gw)

----------------------------------------------------------------------------
(* OrderService.cancelOrder *)

\* v.size === item.size: the variant's size is a Number, the order item's
\* size a String, and strict equality of different types is false
StrictEqualsSize(variantSize, itemSize) == FALSE

\* product.variants.findIndex(v => v.size === item.size && v.color === item.color)
FindVariantIndex(variants, item) ==
    LET hits == { k \in DOMAIN variants :
                    /\ StrictEqualsSize(variants[k].size, item.size)
                    /\ variants[k].color = item.color }
    IN  IF hits = {} THEN 0 ELSE CHOOSE k \in hits : \A j \in hits : k <= j

\* variant: an order can be cancelled in every status
CancellableAlways(status) == TRUE

\* !(order.status !== 'PENDING' && order.status !== 'CONFIRMED')
Cancellable(status) == status \in {"PENDING", "CONFIRMED"}

\* variant: the order is looked up by its id alone
cancelOrderBeginAnyUser(p, orderId, userId) ==
    LET order == orders[orderId]
    IN  /\ CanBegin(p)
        /\ orderId \in DOMAIN orders
        /\ started' = started + 1
        /\ UNCHANGED lastCalc
        /\ IF ~Cancellable(order.status)
           THEN /\ loc' = loc
                /\ last' = Outcome("cancelOrder", orderId, "CannotCancel")
           ELSE /\ loc' = [loc EXCEPT ![p] =
                      [Idle EXCEPT
                         !.op = "cancelOrder", !.oid = orderId, !.userId = userId,
                         !.orig = order, !.i = 1,
                         !.order = [order EXCEPT !.status = "CANCELLED",
                                                 !.cancelledAt = RequestTime],
                         !.pc = IF order.paymentStatus = "PAID"
                                     /\ order.razorpayPaymentId # ""
                                THEN "refund" ELSE "revert"]]
                /\ last' = NoOutcome
        /\ UNCHANGED <<products, coupons, orders, applied, refunds>>

\* Order.findOne({ _id: orderId, userId }), the status check, the refund test
cancelOrderBegin(p, orderId, userId) ==
    LET order == orders[orderId]
    IN  /\ CanBegin(p)
        /\ orderId \in DOMAIN orders
        /\ started' = started + 1
        /\ UNCHANGED lastCalc
        /\ IF order.userId # userId
           THEN /\ loc' = loc
                /\ last' = Outcome("cancelOrder", orderId, "NotFoundOrNotOwner")
           ELSE IF ~Cancellable(order.status)
           THEN /\ loc' = loc
                /\ last' = Outcome("cancelOrder", orderId, "CannotCancel")
           ELSE /\ loc' = [loc EXCEPT ![p] =
                      [Idle EXCEPT
                         !.op = "cancelOrder", !.oid = orderId, !.userId = userId,
                         !.orig = order, !.i = 1,
                         !.order = [order EXCEPT !.status = "CANCELLED",
                                                 !.cancelledAt = RequestTime],
                         !.pc = IF order.paymentStatus = "PAID"
                                     /\ order.razorpayPaymentId # ""
                                THEN "refund" ELSE "revert"]]
                /\ last' = NoOutcome
        /\ UNCHANGED <<products, coupons, orders, applied, refunds>>

\* the refund step of a handler that saved the order before the refund
cancelOrderRefundAfterSave(p, success) ==
    /\ loc[p].op = "cancelOrder"
    /\ loc[p].pc = "refund"
    /\ UNCHANGED <<lastCalc, started>>
    /\ IF success
       THEN /\ refunds' = [refunds EXCEPT ![loc[p].oid] = @ + 1]
            /\ loc' = [loc EXCEPT ![p] =
                  [loc[p] EXCEPT !.pc = "revert", !.order.paymentStatus = "REFUNDED"]]
            /\ last' = NoOutcome
            /\ UNCHANGED orders
       ELSE /\ orders' = [orders EXCEPT
                   ![loc[p].oid] = SaveModified(@, loc[p].orig, loc[p].order)]
            /\ Finish(p, "RefundFailed")
            /\ UNCHANGED refunds
    /\ UNCHANGED <<products, coupons, applied>>

\* await PaymentService.refundPayment(...): the gateway accepts or declines
cancelOrderRefund(p, success) ==
    /\ loc[p].op = "cancelOrder"
    /\ loc[p].pc = "refund"
    /\ UNCHANGED <<lastCalc, started>>
    /\ IF success
       THEN /\ refunds' = [refunds EXCEPT ![loc[p].oid] = @ + 1]
            /\ loc' = [loc EXCEPT ![p] =
                  [loc[p] EXCEPT !.pc = "revert", !.order.paymentStatus = "REFUNDED"]]
            /\ last' = NoOutcome
       ELSE /\ Finish(p, "RefundFailed")
            /\ UNCHANGED refunds
    /\ UNCHANGED <<products, coupons, orders, applied>>

\* one pass of the stock reversion loop: Product.findById, then the lookup
\* in product.variants -- a path productSchema does not define, so that the
\* call of findIndex on undefined throws a TypeError
cancelOrderRevert(p) ==
    LET item    == loc[p].order.items[loc[p].i]
        product == products[item.productId]
        next    == IF loc[p].i < Len(loc[p].order.items)
                   THEN [loc[p] EXCEPT !.i = loc[p].i + 1]
                   ELSE [loc[p] EXCEPT !.pc = "saveOrder"]
    IN  /\ loc[p].op = "cancelOrder"
        /\ loc[p].pc = "revert"
        /\ UNCHANGED <<lastCalc, started>>
        /\ IF ~product.present
           THEN /\ loc' = [loc EXCEPT ![p] = next]
                /\ last' = NoOutcome
                /\ UNCHANGED products
           ELSE IF "variants" \notin DOMAIN product
           THEN /\ Finish(p, "TypeError")
                /\ UNCHANGED products
           ELSE LET k == FindVariantIndex(product.variants, item)
                IN  /\ products' = IF k = 0 THEN products
                                   ELSE [products EXCEPT
                                           ![item.productId].variants[k].stock =
                                               @ + item.quantity]
                    /\ loc' = [loc EXCEPT ![p] = next]
                    /\ last' = NoOutcome
        /\ UNCHANGED <<coupons, orders, applied, refunds>>

\* await order.save(); return order
cancelOrderSave(p) ==
    /\ loc[p].op = "cancelOrder"
    /\ loc[p].pc = "saveOrder"
    /\ orders' = [orders EXCEPT
          ![loc[p].oid] = SaveModified(@, loc[p].orig, loc[p].order)]
    /\ Finish(p, "ok")
    /\ UNCHANGED <<lastCalc, started>>
    /\ UNCHANGED <<products, coupons, applied, refunds>>

----------------------------------------------------------------------------
(* Order controller of the earlier order schema: cancelOrder *)

\* Order.findById, the owner check (403), the status check (400).  The
\* handler reads order.orderStatus, a path orderSchema does not define, so
\* that for the owner the status check refuses as well and the handler never
\* gets to its writes.
cancelOrderController(p, orderId, userId) ==
    LET order   == orders[orderId]
        refusal == IF order.userId # userId THEN "Forbidden"
                   ELSE IF \/ Field(order, "orderStatus") = Undefined
                           \/ Field(order, "orderStatus") \notin {"Pending", "Confirmed"}
                   THEN "CannotCancel"
                   ELSE ""
    IN  /\ CanBegin(p)
        /\ orderId \in DOMAIN orders
        /\ refusal # ""
        /\ started' = started + 1
        /\ last' = Outcome("cancelOrderController", orderId, refusal)
        /\ UNCHANGED <<products, coupons, orders, loc, lastCalc, applied, refunds>>

----------------------------------------------------------------------------
(* OrderService.updateOrderStatus *)

OrderStatuses ==
    {"PENDING", "CONFIRMED", "PROCESSING", "SHIPPED", "DELIVERED", "CANCELLED"}

\* the status values an administrator sends
StatusInputs ==
    {"pending", "confirmed", "processing", "shipped", "delivered", "cancelled",
     "refunded"}

\* status.toUpperCase()
ToUpperCase(status) ==
    CASE status = "pending"    -> "PENDING"
      [] status = "confirmed"  -> "CONFIRMED"
      [] status = "processing" -> "PROCESSING"
      [] status = "shipped"    -> "SHIPPED"
      [] status = "delivered"  -> "DELIVERED"
      [] status = "cancelled"  -> "CANCELLED"
      [] status = "refunded"   -> "REFUNDED"
      [] OTHER                 -> status

\* if (!order.<stamp>) order.<stamp> = now
StampOnce(value, now) == IF value = Null THEN now ELSE value

\* the fields set on the loaded order before any await
WithStatus(order, status, now) ==
    LET o == [order EXCEPT !.status = status]
    IN  CASE status = "CONFIRMED" -> [o EXCEPT !.confirmedAt = StampOnce(@, now)]
          [] status = "SHIPPED"   -> [o EXCEPT !.shippedAt = StampOnce(@, now)]
          [] status = "DELIVERED" -> [o EXCEPT !.deliveredAt = StampOnce(@, now)]
          [] status = "CANCELLED" -> [o EXCEPT !.cancelledAt = StampOnce(@, now)]
          [] status = "REFUNDED"  -> [o EXCEPT !.paymentStatus = "REFUNDED"]
          [] OTHER                -> o

\* Order.findById(orderId), the new status, the switch up to its first await
updateOrderStatusBegin(p, orderId, status) ==
    LET order == orders[orderId]
        doc   == WithStatus(order, ToUpperCase(status), RequestTime)
    IN  /\ CanBegin(p)
        /\ orderId \in DOMAIN orders
        /\ started' = started + 1
        /\ loc' = [loc EXCEPT ![p] =
              [Idle EXCEPT
                 !.op = "updateOrderStatus", !.oid = orderId,
                 !.orig = order, !.order = doc, !.i = 1,
                 !.pc = IF doc.status # "CANCELLED" THEN "saveOrder"
                        ELSE IF order.paymentStatus = "PAID"
                                  /\ order.razorpayPaymentId # ""
                        THEN "refund" ELSE "revert"]]
        /\ last' = NoOutcome
        /\ UNCHANGED <<products, coupons, orders, lastCalc, applied, refunds>>

\* await PaymentService.refundPayment(...): the gateway accepts or declines
updateOrderStatusRefund(p, success) ==
    /\ loc[p].op = "updateOrderStatus"
    /\ loc[p].pc = "refund"
    /\ UNCHANGED <<lastCalc, started>>
    /\ IF success
       THEN /\ refunds' = [refunds EXCEPT ![loc[p].oid] = @ + 1]
            /\ loc' = [loc EXCEPT ![p] =
                  [loc[p] EXCEPT !.pc = "revert", !.order.paymentStatus = "REFUNDED"]]
            /\ last' = NoOutcome
       ELSE /\ Finish(p, "RefundFailed")
            /\ UNCHANGED refunds
    /\ UNCHANGED <<products, coupons, orders, applied>>

\* one pass of the stock reversion loop (the same lookup in product.variants
\* as in cancelOrder)
updateOrderStatusRevert(p) ==
    LET item    == loc[p].order.items[loc[p].i]
        product == products[item.productId]
        next    == IF loc[p].i < Len(loc[p].order.items)
                   THEN [loc[p] EXCEPT !.i = loc[p].i + 1]
                   ELSE [loc[p] EXCEPT !.pc = "saveOrder"]
    IN  /\ loc[p].op = "updateOrderStatus"
        /\ loc[p].pc = "revert"
        /\ UNCHANGED <<lastCalc, started>>
        /\ IF ~product.present
           THEN /\ loc' = [loc EXCEPT ![p] = next]
                /\ last' = NoOutcome
                /\ UNCHANGED products
           ELSE IF "variants" \notin DOMAIN product
           THEN /\ Finish(p, "TypeError")
                /\ UNCHANGED products
           ELSE LET k == FindVariantIndex(product.variants, item)
                IN  /\ products' = IF k = 0 THEN products
                                   ELSE [products EXCEPT
                                           ![item.productId].variants[k].stock =
                                               @ + item.quantity]
                    /\ loc' = [loc EXCEPT ![p] = next]
                    /\ last' = NoOutcome
        /\ UNCHANGED <<coupons, orders, applied, refunds>>

\* await order.save(): a status outside the schema's enum fails validation
updateOrderStatusSave(p) ==
    /\ loc[p].op = "updateOrderStatus"
    /\ loc[p].pc = "saveOrder"
    /\ IF loc[p].order.status \in OrderStatuses
       THEN /\ orders' = [orders EXCEPT
                   ![loc[p].oid] = SaveModified(@, loc[p].orig, loc[p].order)]
            /\ Finish(p, "ok")
       ELSE /\ Finish(p, "ValidationError")
            /\ UNCHANGED orders
    /\ UNCHANGED <<lastCalc, started>>
    /\ UNCHANGED <<products, coupons, applied, refunds>>

----------------------------------------------------------------------------
(* Order controller: updateOrderStatus (the handler of the admin route) *)

\* the fields the controller sets on the loaded order before any await: the
\* status, and the stamp of the status without looking at its value
WithStatusStamped(order, status, now) ==
    LET o == [order EXCEPT !.status = status]
    IN  CASE status = "CONFIRMED" -> [o EXCEPT !.confirmedAt = now]
          [] status = "SHIPPED"   -> [o EXCEPT !.shippedAt = now]
          [] status = "DELIVERED" -> [o EXCEPT !.deliveredAt = now]
          [] status = "CANCELLED" -> [o EXCEPT !.cancelledAt = now]
          [] OTHER                -> o

\* Order.findById(orderId), the new status, the switch up to its first await
updateOrderStatusRequest(p, orderId, status) ==
    LET order == orders[orderId]
        doc   == WithStatusStamped(order, ToUpperCase(status), RequestTime)
    IN  /\ CanBegin(p)
        /\ orderId \in DOMAIN orders
        /\ started' = started + 1
        /\ loc' = [loc EXCEPT ![p] =
              [Idle EXCEPT
                 !.op = "updateOrderStatusRequest", !.oid = orderId,
                 !.orig = order, !.order = doc, !.i = 1,
                 !.pc = IF /\ doc.status = "CANCELLED"
                           /\ order.paymentStatus = "PAID"
                           /\ order.razorpayPaymentId # ""
                        THEN "refund" ELSE "saveOrder"]]
        /\ last' = NoOutcome
        /\ UNCHANGED <<products, coupons, orders, lastCalc, applied, refunds>>

\* await PaymentService.refundPayment(...): when the gateway declines, the
\* payment status is left as it is and the handler goes on
updateOrderStatusRequestRefund(p, success) ==
    /\ loc[p].op = "updateOrderStatusRequest"
    /\ loc[p].pc = "refund"
    /\ refunds' = IF success THEN [refunds EXCEPT ![loc[p].oid] = @ + 1] ELSE refunds
    /\ loc' = [loc EXCEPT ![p] =
          [loc[p] EXCEPT !.pc = "saveOrder",
                         !.order.paymentStatus = IF success THEN "REFUNDED" ELSE @]]
    /\ last' = NoOutcome
    /\ UNCHANGED <<lastCalc, started>>
    /\ UNCHANGED <<products, coupons, orders, applied>>

\* await order.save(), then the response: 200, or 500 when the save throws
\* (a status outside the schema's enum fails validation)
updateOrderStatusRequestSave(p) ==
    /\ loc[p].op = "updateOrderStatusRequest"
    /\ loc[p].pc = "saveOrder"
    /\ IF loc[p].order.status \in OrderStatuses
       THEN /\ orders' = [orders EXCEPT
                   ![loc[p].oid] = SaveModified(@, loc[p].orig, loc[p].order)]
            /\ Finish(p, "ok")
       ELSE /\ Finish(p, "ValidationError")
            /\ UNCHANGED orders
    /\ UNCHANGED <<lastCalc, started>>
    /\ UNCHANGED <<products, coupons, applied, refunds>>

----------------------------------------------------------------------------
(* OrderService.cleanupPendingOrders *)

\* async cleanupPendingOrders(maxAgeMinutes = 30)
MaxAgeMinutes == 30

\* new Date(Date.now() - maxAgeMinutes * 60 * 1000)
CutoffTime(now) == now - MaxAgeMinutes

\* the filter of Order.find: createdAt < cutoffTime, payment.method RAZORPAY,
\* payment.status PENDING, status PENDING
Abandoned(order, cutoffTime) ==
    /\ order.createdAt < cutoffTime
    /\ order.method = "RAZORPAY"
    /\ order.paymentStatus = "PENDING"
    /\ order.status = "PENDING"

\* the documents Order.find resolves to, in the order of the collection
RECURSIVE FindAbandoned(_, _)
FindAbandoned(n, cutoffTime) ==
    IF n = 0 THEN <<>>
    ELSE IF Abandoned(orders[n], cutoffTime)
         THEN Append(FindAbandoned(n - 1, cutoffTime), [oid |-> n, doc |-> orders[n]])
         ELSE FindAbandoned(n - 1, cutoffTime)

\* a tick of the timer (every 15 minutes, so that a run has ended before the
\* next begins): the abandoned orders are read
cleanupPendingOrdersBegin(p) ==
    LET found == FindAbandoned(Len(orders), CutoffTime(started))
    IN  /\ FreeSlot(p)
        /\ InFlight("cleanupPendingOrders") = 0
        /\ IF found = <<>>
           THEN /\ loc' = loc
                /\ last' = Outcome("cleanupPendingOrders", 0, "ok")
           ELSE /\ loc' = [loc EXCEPT ![p] =
                      [Idle EXCEPT !.op = "cleanupPendingOrders", !.pc = "saveOrder",
                                   !.found = found, !.i = 1]]
                /\ last' = NoOutcome
        /\ UNCHANGED <<products, coupons, orders, lastCalc, applied, refunds, started>>

\* the fields set on an abandoned order
MarkAbandoned(order, now) ==
    [order EXCEPT !.status = "CANCELLED",
                  !.paymentStatus = "FAILED",
                  !.failureReason = "Payment timeout",
                  !.cancelledAt = now]

\* variant: an error of order.save() leaves the loop
AfterPassRethrowing(p, saved) ==
    IF saved /\ loc[p].i < Len(loc[p].found)
    THEN [loc EXCEPT ![p].i = @ + 1]
    ELSE [loc EXCEPT ![p] = Idle]

\* try { ... } catch (error) { console.error(...) } inside the for loop: the
\* next order found, or the end of the run
AfterPass(p, saved) ==
    IF loc[p].i < Len(loc[p].found)
    THEN [loc EXCEPT ![p].i = @ + 1]
    ELSE [loc EXCEPT ![p] = Idle]

\* one pass of the loop: the order found earlier is marked and saved; when
\* the save throws, the error is logged and the loop goes on
cleanupPendingOrdersSave(p, saved) ==
    LET oid == loc[p].found[loc[p].i].oid
        doc == loc[p].found[loc[p].i].doc
    IN  /\ loc[p].op = "cleanupPendingOrders"
        /\ loc[p].pc = "saveOrder"
        /\ orders' = IF saved
                     THEN [orders EXCEPT
                             ![oid] = SaveModified(@, doc, MarkAbandoned(doc, started))]
                     ELSE orders
        /\ loc' = AfterPass(p, saved)
        /\ last' = Outcome("cleanupPendingOrders", oid,
                           IF saved THEN "cleaned" ELSE "logged")
        /\ UNCHANGED <<lastCalc, started>>
        /\ UNCHANGED <<products, coupons, applied, refunds>>

----------------------------------------------------------------------------
(* Collaborators *)

\* applyCoupon controller: the pricing preview, nothing stored
applyCoupon(items, city, couponCode, userId, now) ==
    /\ ~lastCalc.called   \* one preview is observed per run: it changes nothing
    /\ lastCalc' = Priced(items, couponCode, userId, now,
                          validateAndCalculateOrder(items, city, couponCode, userId, now))
    /\ last' = NoOutcome
    /\ UNCHANGED <<products, coupons, orders, loc, applied, refunds, started>>

\* deleteProduct controller: Product.findByIdAndDelete
deleteProduct(id) ==
    /\ started < MaxRequests
    /\ products[id].present
    /\ products' = [products EXCEPT ![id] = NoProduct]
    /\ started' = started + 1
    /\ last' = NoOutcome
    /\ UNCHANGED <<coupons, orders, loc, applied, refunds, lastCalc>>

----------------------------------------------------------------------------
(* Specification *)

PaymentMethods == {"COD", "RAZORPAY"}

Next ==
    \/ \E p \in Procs, ck \in Checkouts, city \in ShippingCities,
          paymentMethod \in PaymentMethods, userId \in Buyers,
          intentCreated \in BOOLEAN :
          createOrderRequest(p, ck[1], city, paymentMethod, ck[2], userId,
                             intentCreated)
    \/ \E p \in Procs, ck \in Checkouts, city \in ShippingCities,
          userId \in Buyers, gw \in GatewayPayloads :
          verifyPayment(p, ck[1], city, ck[2], userId, gw)
    \/ \E p \in Procs : createOrderSave(p)
    \/ \E p \in Procs : createOrderReadProduct(p)
    \/ \E p \in Procs : createOrderSaveProduct(p)
    \/ \E p \in Procs : createOrderCoupon(p)
    \/ \E p \in Procs : createOrderReturn(p)
    \/ \E p \in Procs, gw \in GatewayPayloads : confirmPaymentBegin(p, gw)
    \/ \E p \in Procs : confirmPaymentSaveFailed(p)
    \/ \E p \in Procs : confirmPaymentReadProduct(p)
    \/ \E p \in Procs : confirmPaymentSaveProduct(p)
    \/ \E p \in Procs : confirmPaymentCoupon(p)
    \/ \E p \in Procs : confirmPaymentSave(p)
    \/ \E p \in Procs, orderId \in 1..MaxOrders, userId \in Users :
          cancelOrderBegin(p, orderId, userId)
    \/ \E p \in Procs, success \in BOOLEAN : cancelOrderRefund(p, success)
    \/ \E p \in Procs : cancelOrderRevert(p)
    \/ \E p \in Procs : cancelOrderSave(p)
    \/ \E id \in ProductIds : deleteProduct(id)

Spec == Init /\ [][Next]_vars

\* Checkout on its own: carts that can and carts that cannot be priced, with
\* the coupon of the store active or switched off
InitCheckout ==
    /\ products = [id \in ProductIds |-> InitialProduct]
    /\ \E c \in StoreCoupons, active \in BOOLEAN :
          coupons = [code \in CouponCodes |-> [c EXCEPT !.isActive = active]]
    /\ orders = <<>>
    /\ applied = <<>>
    /\ refunds = <<>>
    /\ loc = [p \in Procs |-> Idle]
    /\ lastCalc = NotPriced
    /\ last = NoOutcome
    /\ started = 0

NextCheckout ==
    \/ \E p \in Procs, ck \in Checkouts \cup RejectedCheckouts,
          city \in ShippingCities, paymentMethod \in PaymentMethods,
          userId \in Buyers, intentCreated \in BOOLEAN :
          createOrderRequest(p, ck[1], city, paymentMethod, ck[2], userId,
                             intentCreated)
    \/ \E p \in Procs, ck \in Checkouts \cup RejectedCheckouts,
          city \in ShippingCities, userId \in Buyers, gw \in GatewayPayloads :
          verifyPayment(p, ck[1], city, ck[2], userId, gw)
    \/ \E p \in Procs : createOrderSave(p)
    \/ \E p \in Procs : createOrderReadProduct(p)
    \/ \E p \in Procs : createOrderSaveProduct(p)
    \/ \E p \in Procs : createOrderCoupon(p)
    \/ \E p \in Procs : createOrderReturn(p)

SpecCheckout == InitCheckout /\ [][NextCheckout]_vars

----------------------------------------------------------------------------
(* Payment intent and its verification *)

\* Math.round(calculation.totalAmount * 100) on an amount in whole units
AmountInPaise(totalAmount) == totalAmount * 100

\* createOrder controller, gateway branch, with the intent remembered: the
\* cart is priced, PaymentService.createRazorpayOrder creates the intent of
\* the priced amount, and the pricing is recorded as the latest calculation
\* (one intent is observed per run)
createRazorpayOrder(p, items, city, couponCode, userId, intentCreated) ==
    LET calc   == validateAndCalculateOrder(items, city, couponCode, userId, RequestTime)
        result == IF ~calc.ok THEN calc.error
                  ELSE IF calc.totalAmount <= 0 THEN "InvalidAmount"
                  ELSE IF intentCreated THEN "PaymentInitiated"
                  ELSE "IntentFailed"
    IN  /\ CanBegin(p)
        /\ ~lastCalc.called
        /\ started' = started + 1
        /\ last' = Outcome("createOrderRequest", 0, result)
        /\ lastCalc' = IF result = "PaymentInitiated"
                       THEN Priced(items, couponCode, userId, RequestTime, calc)
                       ELSE lastCalc
        /\ UNCHANGED <<products, coupons, orders, loc, applied, refunds>>

\* the gateway signs a payment only for an intent it has created
NextIntent ==
    \/ \E p \in Procs, ck \in Checkouts, city \in ShippingCities,
          userId \in Buyers, intentCreated \in BOOLEAN :
          createRazorpayOrder(p, ck[1], city, ck[2], userId, intentCreated)
    \/ \E p \in Procs, ck \in Checkouts, city \in ShippingCities,
          userId \in Buyers, gw \in GatewayPayloads :
          /\ lastCalc.called
          /\ verifyPayment(p, ck[1], city, ck[2], userId, gw)
    \/ \E p \in Procs : createOrderSave(p)
    \/ \E p \in Procs : createOrderReadProduct(p)
    \/ \E p \in Procs : createOrderSaveProduct(p)
    \/ \E p \in Procs : createOrderCoupon(p)
    \/ \E p \in Procs : createOrderReturn(p)

SpecIntent == InitCheckout /\ [][NextIntent]_vars

\* The pricing preview on its own: any coupon an administrator can have
\* created, with the usage entries earlier orders recorded on it
UsageHistories ==
    { <<>>, <<"u1">>, <<"u2">>, <<"u1", "u1">>, <<"u1", "u2">> }

RECURSIVE WithUsage(_, _)
WithUsage(coupon, users) ==
    IF users = <<>> THEN coupon
    ELSE WithUsage(PushUsage(coupon, Head(users)), Tail(users))

InitPricing ==
    /\ products = [id \in ProductIds |-> InitialProduct]
    /\ \E c \in CouponConfigs, h \in UsageHistories, active \in BOOLEAN :
          coupons = [code \in CouponCodes |->
                        [WithUsage(c, h) EXCEPT !.isActive = active]]
    /\ orders = <<>>
    /\ applied = <<>>
    /\ refunds = <<>>
    /\ loc = [p \in Procs |-> Idle]
    /\ lastCalc = NotPriced
    /\ last = NoOutcome
    /\ started = 0

NextPricing ==
    \E items \in PreviewCarts, city \in Cities, couponCode \in CouponCodes \cup {NoCode},
       userId \in Users, now \in Clock :
          applyCoupon(items, city, couponCode, userId, now)

SpecPricing == InitPricing /\ [][NextPricing]_vars

----------------------------------------------------------------------------
(* Coupon model and the validateCoupon controller *)

\* couponSchema.virtual('isCurrentlyValid')
isCurrentlyValid(coupon, now) ==
    coupon.isActive /\ now >= coupon.validFrom /\ now <= coupon.validUntil

\* couponSchema.methods.canUserUseCoupon: usedBy.find returns the first
\* record of the user
canUserUseCoupon(coupon, userId, now) ==
    LET mine == { k \in DOMAIN coupon.usedBy : coupon.usedBy[k].userId = userId }
        first == CHOOSE k \in mine : \A j \in mine : k <= j
    IN  /\ isCurrentlyValid(coupon, now)
        /\ ~(coupon.usageLimit # Null /\ coupon.usageCount >= coupon.usageLimit)
        /\ ~(mine # {} /\ coupon.usedBy[first].usageCount >= coupon.userUsageLimit)

\* Math.round(x * 100) / 100 on an amount in whole currency units
RoundToCents(x) == (x * 100) \div 100

\* couponSchema.methods.calculateDiscount
calculateDiscount(coupon, orderAmount, deliveryCharge, now) ==
    IF ~isCurrentlyValid(coupon, now)
    THEN [discount |-> 0, discountOnDelivery |-> 0, error |-> "NotValid"]
    ELSE IF orderAmount < coupon.minimumOrderAmount
    THEN [discount |-> 0, discountOnDelivery |-> 0, error |-> "MinimumOrderAmount"]
    ELSE LET byType == CASE coupon.type = "FIXED_AMOUNT" -> coupon.value
                         [] coupon.type = "PERCENTAGE" ->
                              (orderAmount * coupon.value) \div 100
                         [] OTHER -> 0
             capped == IF /\ Truthy(coupon.maximumDiscountAmount)
                          /\ byType > coupon.maximumDiscountAmount
                       THEN coupon.maximumDiscountAmount ELSE byType
         IN  [ discount           |-> RoundToCents(Min(capped, orderAmount)),
               discountOnDelivery |-> RoundToCents(
                   IF coupon.type = "FREE_SHIPPING" THEN deliveryCharge ELSE 0),
               error              |-> "" ]

\* code.toUpperCase() on the codes a user sends
CodeInputs == {"SAVE", "save", "gone"}
CodeToUpperCase(code) ==
    CASE code = "save" -> "SAVE"
      [] code = "gone" -> "GONE"
      [] OTHER         -> code

\* the order amounts a user sends
OrderAmounts == {400, 1000, 3000}

\* validateCoupon controller: the active coupon of the code, the user's
\* limits, then calculateDiscount with no delivery charge; the answer is
\* recorded as the latest calculation
validateCoupon(code, orderAmount, userId, now) ==
    LET upper  == CodeToUpperCase(code)
        coupon == coupons[upper]
        result == calculateDiscount(coupon, orderAmount, 0, now)
        error  == IF ~FindActiveCoupon(upper) THEN "InvalidCoupon"
                  ELSE IF ~canUserUseCoupon(coupon, userId, now) THEN "CouponUserLimit"
                  ELSE result.error
        calc   == IF error # ""
                  THEN [ok |-> FALSE, error |-> error]
                  ELSE [ ok |-> TRUE, error |-> "", subtotal |-> orderAmount,
                         deliveryCharge |-> 0,
                         discountAmount |-> result.discount,
                         discountOnDelivery |-> result.discountOnDelivery ]
    IN  /\ ~lastCalc.called
        /\ lastCalc' = Priced(<<>>, upper, userId, now, calc)
        /\ last' = Outcome("validateCoupon", 0, IF error = "" THEN "ok" ELSE error)
        /\ UNCHANGED <<products, coupons, orders, loc, applied, refunds, started>>

\* the coupons of the pricing runs, and a fixed amount with a maximum discount
CappedCouponConfigs ==
    CouponConfigs \cup { CouponDoc("FIXED_AMOUNT", 500, 150, 0, Null, 1) }

InitCoupon ==
    /\ products = [id \in ProductIds |-> InitialProduct]
    /\ \E c \in CappedCouponConfigs, h \in UsageHistories, active \in BOOLEAN :
          coupons = [code \in CouponCodes |->
                        [WithUsage(c, h) EXCEPT !.isActive = active]]
    /\ orders = <<>>
    /\ applied = <<>>
    /\ refunds = <<>>
    /\ loc = [p \in Procs |-> Idle]
    /\ lastCalc = NotPriced
    /\ last = NoOutcome
    /\ started = 0

NextCoupon ==
    \/ \E items \in PreviewCarts, city \in Cities, couponCode \in CouponCodes \cup {NoCode},
          userId \in Users, now \in Clock :
          applyCoupon(items, city, couponCode, userId, now)
    \/ \E code \in CodeInputs, orderAmount \in OrderAmounts, userId \in Users,
          now \in Clock :
          validateCoupon(code, orderAmount, userId, now)

SpecCoupon == InitCoupon /\ [][NextCoupon]_vars

\* The life of one placed order: the store after an order was placed (a
\* gateway order awaiting payment, a cash-on-delivery order, or a paid
\* gateway order), then payment confirmations, cancellations by the buyer,
\* status updates by an administrator, the sweep, and product deletion
PlacedKinds == {"awaiting", "cod", "paid"}

InitLifecycle ==
    /\ \E c \in StoreCoupons, kind \in PlacedKinds :
         LET committed == kind # "awaiting"
         IN  /\ products = [id \in ProductIds |->
                    IF committed
                    THEN updateVariantStock(InitialProduct, 42, "red", InitialStock - 1)
                    ELSE InitialProduct]
             /\ coupons = [code \in CouponCodes |->
                    IF committed THEN PushUsage(c, "u1") ELSE c]
             /\ applied = << [dec |-> << IF committed THEN 1 ELSE 0 >>,
                              coupon |-> IF committed THEN 1 ELSE 0,
                              confirms |-> 0] >>
             /\ LET calc == validateAndCalculateOrder(SeedCart, "Pune", "SAVE", "u1", 0)
                IN  orders = << CASE kind = "awaiting" -> PendingGatewayOrder(calc)
                                  [] kind = "cod"      ->
                                       [OrderDoc("u1", calc, "COD") EXCEPT
                                          !.createdAt = LongAgo]
                                  [] OTHER ->
                                       [PendingGatewayOrder(calc) EXCEPT
                                          !.razorpayPaymentId = "pay1",
                                          !.paymentStatus = "PAID",
                                          !.status = "CONFIRMED",
                                          !.confirmedAt = 0] >>
    /\ refunds = << 0 >>
    /\ loc = [p \in Procs |-> Idle]
    /\ lastCalc = NotPriced
    /\ last = NoOutcome
    /\ started = 0

NextLifecycle ==
    \/ \E p \in Procs, gw \in GatewayPayloads : confirmPaymentBegin(p, gw)
    \/ \E p \in Procs : confirmPaymentSaveFailed(p)
    \/ \E p \in Procs : confirmPaymentReadProduct(p)
    \/ \E p \in Procs : confirmPaymentSaveProduct(p)
    \/ \E p \in Procs : confirmPaymentCoupon(p)
    \/ \E p \in Procs : confirmPaymentSave(p)
    \/ \E p \in Procs, orderId \in 1..MaxOrders, userId \in Users :
          cancelOrderBegin(p, orderId, userId)
    \/ \E p \in Procs, success \in BOOLEAN : cancelOrderRefund(p, success)
    \/ \E p \in Procs : cancelOrderRevert(p)
    \/ \E p \in Procs : cancelOrderSave(p)
    \/ \E p \in Procs, orderId \in 1..MaxOrders, status \in StatusInputs :
          updateOrderStatusBegin(p, orderId, status)
    \/ \E p \in Procs, success \in BOOLEAN : updateOrderStatusRefund(p, success)
    \/ \E p \in Procs : updateOrderStatusRevert(p)
    \/ \E p \in Procs : updateOrderStatusSave(p)
    \/ \E p \in Procs : cleanupPendingOrdersBegin(p)
    \/ \E p \in Procs, saved \in BOOLEAN : cleanupPendingOrdersSave(p, saved)
    \/ \E id \in ProductIds : deleteProduct(id)

SpecLifecycle == InitLifecycle /\ [][NextLifecycle]_vars

\* cancellations and status updates of a placed order, through the service
\* and through the controllers
NextAdmin ==
    \/ \E p \in Procs, orderId \in 1..MaxOrders, userId \in Users :
          cancelOrderBegin(p, orderId, userId)
    \/ \E p \in Procs, success \in BOOLEAN : cancelOrderRefund(p, success)
    \/ \E p \in Procs : cancelOrderRevert(p)
    \/ \E p \in Procs : cancelOrderSave(p)
    \/ \E p \in Procs, orderId \in 1..MaxOrders, userId \in Users :
          cancelOrderController(p, orderId, userId)
    \/ \E p \in Procs, orderId \in 1..MaxOrders, status \in StatusInputs :
          updateOrderStatusBegin(p, orderId, status)
    \/ \E p \in Procs, success \in BOOLEAN : updateOrderStatusRefund(p, success)
    \/ \E p \in Procs : updateOrderStatusRevert(p)
    \/ \E p \in Procs : updateOrderStatusSave(p)
    \/ \E p \in Procs, orderId \in 1..MaxOrders, status \in StatusInputs :
          updateOrderStatusRequest(p, orderId, status)
    \/ \E p \in Procs, success \in BOOLEAN : updateOrderStatusRequestRefund(p, success)
    \/ \E p \in Procs : updateOrderStatusRequestSave(p)
    \/ \E id \in ProductIds : deleteProduct(id)

SpecAdmin == InitLifecycle /\ [][NextAdmin]_vars

\* The sweep of abandoned orders: a store of MaxOrders orders placed by one
\* buyer (gateway orders awaiting payment that are older than the cutoff,
\* exactly as old as the cutoff, or new; a gateway order whose payment
\* failed; a cash-on-delivery order), then ticks of the timer and payment
\* confirmations for the first order
HalfHourAgo == 0 - MaxAgeMinutes
JustNow == 0

SweepKinds == {"stale", "halfHour", "new", "failed", "cod"}

SweepOrder(kind, calc, k) ==
    LET awaiting == [OrderDoc("u1", calc, "RAZORPAY") EXCEPT
                       !.razorpayOrderId = IF k = 1 THEN "rzp1" ELSE "rzp-other"]
    IN  CASE kind = "stale"    -> [awaiting EXCEPT !.createdAt = LongAgo]
          [] kind = "halfHour" -> [awaiting EXCEPT !.createdAt = HalfHourAgo]
          [] kind = "new"      -> [awaiting EXCEPT !.createdAt = JustNow]
          [] kind = "failed"   -> MarkPaymentFailed([awaiting EXCEPT !.createdAt = LongAgo])
          [] OTHER             -> [OrderDoc("u1", calc, "COD") EXCEPT
                                     !.createdAt = LongAgo]

InitSweep ==
    /\ \E kinds \in [1..MaxOrders -> SweepKinds] :
         LET cod == { k \in 1..MaxOrders : kinds[k] = "cod" }
             c   == CouponDoc("PERCENTAGE", 10, Null, 0, 1, 1)
         IN  /\ Cardinality(cod) <= 1
             /\ products = [id \in ProductIds |->
                    IF cod # {}
                    THEN updateVariantStock(InitialProduct, 42, "red", InitialStock - 1)
                    ELSE InitialProduct]
             /\ coupons = [code \in CouponCodes |->
                    IF cod # {} THEN PushUsage(c, "u1") ELSE c]
             /\ applied = [k \in 1..MaxOrders |->
                              [dec |-> << IF k \in cod THEN 1 ELSE 0 >>,
                               coupon |-> IF k \in cod THEN 1 ELSE 0,
                               confirms |-> 0]]
             /\ LET calc == validateAndCalculateOrder(SeedCart, "Pune", "SAVE", "u1", 0)
                IN  orders = [k \in 1..MaxOrders |-> SweepOrder(kinds[k], calc, k)]
    /\ refunds = [k \in 1..MaxOrders |-> 0]
    /\ loc = [p \in Procs |-> Idle]
    /\ lastCalc = NotPriced
    /\ last = NoOutcome
    /\ started = 0

NextSweep ==
    \/ \E p \in Procs : cleanupPendingOrdersBegin(p)
    \/ \E p \in Procs, saved \in BOOLEAN : cleanupPendingOrdersSave(p, saved)
    \/ \E p \in Procs, gw \in GatewayPayloads : confirmPaymentBegin(p, gw)
    \/ \E p \in Procs : confirmPaymentSaveFailed(p)
    \/ \E p \in Procs : confirmPaymentReadProduct(p)
    \/ \E p \in Procs : confirmPaymentSaveProduct(p)
    \/ \E p \in Procs : confirmPaymentCoupon(p)
    \/ \E p \in Procs : confirmPaymentSave(p)

SpecSweep == InitSweep /\ [][NextSweep]_vars

\* the pass of the sweep that saves order o
SweepSaves(o) ==
    \E p \in Procs :
        /\ loc[p].op = "cleanupPendingOrders"
        /\ loc[p].found[loc[p].i].oid = o
        /\ cleanupPendingOrdersSave(p, TRUE)

\* The sweep tick after tick over the same stores, while time passes with a
\* request that touches no order
NextSweepAlone ==
    \/ \E p \in Procs : cleanupPendingOrdersBegin(p)
    \/ \E p \in Procs, saved \in BOOLEAN : cleanupPendingOrdersSave(p, saved)
    \/ \E id \in ProductIds : deleteProduct(id)

\* Scheduling: the timer keeps firing, the sweep is resumed after each await,
\* and the store does not refuse the save of the same order on every tick
FairSweep ==
    /\ WF_vars(\E p \in Procs : cleanupPendingOrdersBegin(p))
    /\ WF_vars(\E p \in Procs, saved \in BOOLEAN : cleanupPendingOrdersSave(p, saved))
    /\ \A o \in 1..MaxOrders : SF_vars(SweepSaves(o))

SpecSweepFair == InitSweep /\ [][NextSweepAlone]_vars /\ FairSweep

TypeOK == Len(orders) <= MaxOrders

----------------------------------------------------------------------------
(* Properties of the order workflow *)

\* slot p takes the step
Moves(p) == loc'[p] # loc[p]

StockOf(product, item) ==
    getStockForVariant(product, ParseFloat(item.size), item.color)

\* C1: a payment confirmation invoked after an earlier confirmation of the
\* same order has returned (it reads the order as already PAID, and no other
\* request is running) changes neither variant stock nor coupon usage, so
\* that two confirmations in sequence decrement stock once and count the
\* coupon once.
SecondConfirmationChangesNothing ==
    [][\A p \in Procs :
          ( /\ loc[p].op = "confirmPayment"
            /\ loc[p].orig.paymentStatus = "PAID"
            /\ applied[loc[p].oid].confirms >= 1
            /\ \A q \in Procs \ {p} : loc[q].op = "idle"
            /\ Moves(p) )
          => (products' = products /\ coupons' = coupons)]_vars

\* C2: under every interleaving of confirmation attempts that both read the
\* order as not yet paid, the stock decrement of each line item and the
\* coupon usage increment of the order are committed at most once in total.
RacingConfirmationsApplyOnce ==
    [][\A p \in Procs :
          ( /\ loc[p].op = "confirmPayment"
            /\ loc[p].orig.paymentStatus = "PENDING"
            /\ Moves(p) )
          => ( /\ \A k \in DOMAIN applied'[loc[p].oid].dec :
                     applied'[loc[p].oid].dec[k] <= 1
               /\ applied'[loc[p].oid].coupon <= 1 )]_vars

\* C3: every calculation handed to createOrder and every stored order has
\* totalAmount = max(0, subtotal - discountAmount + deliveryCharge -
\* discountOnDelivery), and totalAmount >= 0.
TotalOK(r) ==
    LET t == r.subtotal - r.discountAmount + r.deliveryCharge - r.discountOnDelivery
    IN  /\ r.totalAmount = IF t < 0 THEN 0 ELSE t
        /\ r.totalAmount >= 0

TotalIsClampedSum ==
    /\ \A o \in DOMAIN orders : TotalOK(orders[o])
    /\ \A p \in Procs : loc[p].op = "createOrder" => TotalOK(loc[p].calc)

\* an order stored by createOrder with a discount on the goods or on delivery
TotalIsClampedSumWitness ==
    \E o \in DOMAIN orders :
        /\ orders[o].method = "COD"
        /\ HasCoupon(orders[o].couponUsed)
        /\ orders[o].discountAmount + orders[o].discountOnDelivery > 0
        /\ orders[o].totalAmount < orders[o].subtotal + orders[o].deliveryCharge

\* C4: the stock reversion pass of cancelOrder for a line item of a
\* CONFIRMED order raises the stock of the item's (size, color) variant by
\* exactly the ordered quantity.
CancelRevertsStock ==
    [][\A p \in Procs :
          ( /\ loc[p].op = "cancelOrder"
            /\ loc[p].pc = "revert"
            /\ loc[p].orig.status = "CONFIRMED"
            /\ Moves(p)
            /\ products[loc[p].order.items[loc[p].i].productId].present )
          => LET item == loc[p].order.items[loc[p].i]
             IN  /\ products'[item.productId].present
                 /\ StockOf(products'[item.productId], item)
                      = StockOf(products[item.productId], item) + item.quantity]_vars

\* C5: when confirmPayment was called for a PENDING order with a signature
\* that does not verify, its save leaves the order PENDING with payment
\* status FAILED and a failure reason, an error is returned, and neither
\* variant stock nor coupon usage changes.
InvalidSignatureMarksFailed ==
    [][\A p \in Procs :
          ( /\ loc[p].op = "confirmPayment"
            /\ loc[p].pc = "saveFailed"
            /\ loc[p].orig.status = "PENDING"
            /\ orders[loc[p].oid].status = "PENDING"
            /\ Moves(p) )
          => ( /\ orders'[loc[p].oid].paymentStatus = "FAILED"
               /\ orders'[loc[p].oid].failureReason # ""
               /\ orders'[loc[p].oid].status = "PENDING"
               /\ last'.op = "confirmPayment"
               /\ last'.result = "InvalidSignature"
               /\ products' = products
               /\ coupons' = coupons
               /\ applied' = applied )]_vars

\* a PENDING order whose confirmation with a bad signature has just failed
InvalidSignatureMarksFailedWitness ==
    /\ last.op = "confirmPayment"
    /\ last.result = "InvalidSignature"
    /\ orders[last.oid].status = "PENDING"
    /\ orders[last.oid].paymentStatus = "FAILED"
    /\ HasCoupon(orders[last.oid].couponUsed)

\* the quantity of variant k of product id whose decrement was committed
RECURSIVE SumOver(_, _)
SumOver(f, S) ==
    IF S = {} THEN 0
    ELSE LET x == CHOOSE y \in S : TRUE IN f[x] + SumOver(f, S \ {x})

CommittedQuantity(id, k) ==
    LET lines == { <<o, i>> \in (DOMAIN orders) \X (1..2) :
                     /\ i \in DOMAIN orders[o].items
                     /\ orders[o].items[i].productId = id
                     /\ VariantIndex(InitialProduct, ParseFloat(orders[o].items[i].size),
                                     orders[o].items[i].color) = k }
    IN  SumOver([l \in lines |-> applied[l[1]].dec[l[2]] * orders[l[1]].items[l[2]].quantity],
                lines)

\* C6: when the purchases of a variant are committed at most once per order
\* line, no decrement is lost under any interleaving: the stored stock of the
\* variant is its initial stock minus the quantities of all committed
\* purchases (and so purchases exceeding the stock are never all committed).
NoLostDecrement ==
    ( \A o \in DOMAIN applied : \A i \in DOMAIN applied[o].dec : applied[o].dec[i] <= 1 )
    => \A id \in ProductIds :
         products[id].present =>
           \A k \in DOMAIN products[id].stockVariants :
              products[id].stockVariants[k].stock
                 = InitialProduct.stockVariants[k].stock - CommittedQuantity(id, k)

\* C8: a coupon with a usage limit never has more committed usages recorded
\* than the limit allows.
GlobalUsageWithinLimit ==
    \A c \in DOMAIN coupons :
        coupons[c].usageLimit # Null => Len(coupons[c].usedBy) <= coupons[c].usageLimit

\* C9: no user has more usages of a coupon recorded than the coupon's
\* per-user limit allows.
UserUsageWithinLimit ==
    \A c \in DOMAIN coupons : \A u \in Users :
        userCouponUses(coupons[c], u) <= coupons[c].userUsageLimit

----------------------------------------------------------------------------
(* Properties of pricing *)

\* C7: pricing rejects a coupon for a user who has userUsageLimit usages of
\* it recorded, and for every user once as many usages as usageLimit are
\* recorded.
ExhaustedCouponRejected ==
    ( /\ lastCalc.called
      /\ lastCalc.couponCode # NoCode
      /\ \/ userCouponUses(lastCalc.coupon, lastCalc.userId)
               >= lastCalc.coupon.userUsageLimit
         \/ /\ lastCalc.coupon.usageLimit # Null
            /\ Len(lastCalc.coupon.usedBy) >= lastCalc.coupon.usageLimit )
    => ~lastCalc.calc.ok

PercentageApplied ==
    /\ lastCalc.called
    /\ lastCalc.calc.ok
    /\ lastCalc.couponCode # NoCode
    /\ lastCalc.coupon.type = "PERCENTAGE"

\* C10: the discount of a PERCENTAGE coupon is at most
\* maximumDiscountAmount whenever that is not null, and at most the subtotal.
PercentageDiscountCapped ==
    PercentageApplied
    => /\ lastCalc.calc.discountAmount <= lastCalc.calc.subtotal
       /\ lastCalc.coupon.maximumDiscountAmount # Null
            => lastCalc.calc.discountAmount <= lastCalc.coupon.maximumDiscountAmount

\* a cart line that names an existing variant with a positive quantity
WellFormed(item) ==
    /\ item.quantity > 0
    /\ products[item.id].present
    /\ VariantIndex(products[item.id], ParseFloat(item.size), item.color) # 0

\* C11: pricing accepts a cart whose lines each ask for at most the
\* variant's stock, also when a line asks for exactly the stock, and rejects
\* with the insufficient-stock error a line that asks for one more than the
\* stock (the lines before it being acceptable); pricing changes no product,
\* coupon or order.
StockBoundaryRespected ==
    [][ lastCalc'.called =>
          LET items == lastCalc'.items
              calc  == lastCalc'.calc
              fits(k) == /\ WellFormed(items[k])
                         /\ items[k].quantity <= StockOf(products[items[k].id], items[k])
          IN  /\ ( /\ Len(items) > 0
                   /\ lastCalc'.couponCode = NoCode
                   /\ \A k \in DOMAIN items : fits(k)
                   /\ \E k \in DOMAIN items :
                         items[k].quantity = StockOf(products[items[k].id], items[k]) )
                 => calc.ok
              /\ \A k \in DOMAIN items :
                    ( /\ \A j \in 1..(k - 1) : fits(j)
                      /\ WellFormed(items[k])
                      /\ items[k].quantity
                            = StockOf(products[items[k].id], items[k]) + 1 )
                    => ~calc.ok /\ calc.error = "InsufficientStock"
              /\ products' = products
              /\ coupons' = coupons
              /\ orders' = orders ]_vars

\* a cart priced whose first line asks for exactly the stock and whose second
\* line asks for one more than the stock: rejected for the shortfall
StockBoundaryRespectedWitness ==
    /\ lastCalc.called
    /\ Len(lastCalc.items) = 2
    /\ lastCalc.items[1].quantity = StockOf(products["p1"], lastCalc.items[1])
    /\ lastCalc.items[2].quantity = StockOf(products["p1"], lastCalc.items[2]) + 1
    /\ ~lastCalc.calc.ok
    /\ lastCalc.calc.error = "InsufficientStock"

\* a cart the item loop accepts
CartFits(items) ==
    /\ Len(items) > 0
    /\ \A k \in DOMAIN items :
          /\ WellFormed(items[k])
          /\ items[k].quantity <= StockOf(products[items[k].id], items[k])

\* C12: pricing rejects, with the minimum-purchase error, an active coupon
\* whose minimumOrderAmount is greater than the subtotal of the cart, and so
\* applies no discount.
MinimumOrderEnforced ==
    ( /\ lastCalc.called
      /\ lastCalc.couponCode # NoCode
      /\ lastCalc.coupon.isActive
      /\ CartFits(lastCalc.items)
      /\ lastCalc.coupon.minimumOrderAmount > Subtotal(lastCalc.items) )
    => /\ ~lastCalc.calc.ok
       /\ lastCalc.calc.error = "CouponMinPurchase"

\* C13: pricing rejects a coupon that is inactive or whose validity window
\* does not contain the current time (now < validFrom or now > validUntil),
\* and does not reject a coupon on validity grounds inside the window.
ValidityWindowEnforced ==
    ( /\ lastCalc.called
      /\ lastCalc.couponCode # NoCode
      /\ CartFits(lastCalc.items) )
    => LET c       == lastCalc.coupon
           invalid == \/ ~c.isActive
                      \/ lastCalc.now < c.validFrom
                      \/ lastCalc.now > c.validUntil
           refused == /\ ~lastCalc.calc.ok
                      /\ lastCalc.calc.error \in {"InvalidCoupon", "CouponExpired"}
       IN  invalid <=> refused

\* C14: a createOrder request with gateway payment changes no product, no
\* coupon and no order, whether the payment intent was created or not, and
\* never leads the order service to store an order that is not paid: the
\* service is entered for a gateway payment only with the gateway's payment
\* details, which is when stock and coupon usage are committed.
GatewayCreateChangesNothing ==
    [][ /\ ( /\ started' = started + 1
             /\ last'.op = "createOrderRequest" )
           => /\ products' = products
              /\ coupons' = coupons
              /\ orders' = orders
              /\ applied' = applied
              /\ loc' = loc
        /\ \A p \in Procs :
              ( /\ loc'[p].op = "createOrder"
                /\ loc'[p].order.method = "RAZORPAY" )
              => /\ loc'[p].order.paymentStatus = "PAID"
                 /\ loc'[p].order.razorpayPaymentId # "" ]_vars

\* a gateway payment was initiated while the store
\* holds no order and the stock is untouched
GatewayCreateChangesNothingWitness ==
    /\ last.op = "createOrderRequest"
    /\ last.result = "PaymentInitiated"
    /\ orders = <<>>
    /\ products["p1"] = InitialProduct
    /\ \A c \in DOMAIN coupons : coupons[c].usedBy = <<>>

\* C15: creating a cash-on-delivery order stores the order with payment
\* status PENDING and status CONFIRMED or PENDING, lowers the stock of each
\* line's variant by the line's quantity (the product not having been written
\* since the handler read it), and raises the coupon's usage count and the
\* buyer's number of usages of the coupon by one.
CashOnDeliveryCommits ==
    [][\A p \in Procs :
          ( /\ loc[p].op = "createOrder"
            /\ loc[p].order.method = "COD"
            /\ Moves(p) )
          => /\ loc[p].pc = "saveOrder"
                => /\ Len(orders') = Len(orders) + 1
                   /\ orders'[Len(orders')].method = "COD"
                   /\ orders'[Len(orders')].paymentStatus = "PENDING"
                   /\ orders'[Len(orders')].status \in {"CONFIRMED", "PENDING"}
             /\ ( /\ loc[p].pc = "saveProduct"
                  /\ products[loc[p].calc.items[loc[p].i].productId] = loc[p].prodRead )
                => LET item == loc[p].calc.items[loc[p].i]
                   IN  StockOf(products'[item.productId], item)
                          = StockOf(products[item.productId], item) - item.quantity
             /\ loc[p].pc = "coupon"
                => LET c == loc[p].calc.couponUsed.couponId
                   IN  /\ coupons'[c].usageCount = coupons[c].usageCount + 1
                       /\ userCouponUses(coupons'[c], loc[p].userId)
                             = userCouponUses(coupons[c], loc[p].userId) + 1 ]_vars

----------------------------------------------------------------------------
(* Properties of the life of an order *)

\* C16: a cancellation by the buyer is taken up only for an order whose
\* status is PENDING or CONFIRMED; for an order in PROCESSING, SHIPPED,
\* DELIVERED or CANCELLED the request ends at once with an error and changes
\* no order, no stock, no coupon, and makes no refund.
CancelOnlyPendingOrConfirmed ==
    [][ /\ \A p \in Procs :
              ( /\ loc[p].op # "cancelOrder"
                /\ loc'[p].op = "cancelOrder" )
              => orders[loc'[p].oid].status \in {"PENDING", "CONFIRMED"}
        /\ \A o \in DOMAIN orders, p \in Procs :
              ( /\ orders[o].status \in {"PROCESSING", "SHIPPED", "DELIVERED", "CANCELLED"}
                /\ started' = started + 1
                /\ \/ last'.op = "cancelOrder" /\ last'.oid = o
                   \/ loc'[p].op = "cancelOrder" /\ loc[p].op = "idle" /\ loc'[p].oid = o )
              => /\ last'.op = "cancelOrder"
                 /\ last'.result \in {"CannotCancel", "NotFoundOrNotOwner"}
                 /\ loc' = loc
                 /\ orders' = orders
                 /\ products' = products
                 /\ coupons' = coupons
                 /\ refunds' = refunds ]_vars

\* the buyer's cancellation of a shipped order was refused
CancelOnlyPendingOrConfirmedWitness ==
    /\ last.op = "cancelOrder"
    /\ last.result = "CannotCancel"
    /\ orders[last.oid].status = "SHIPPED"
    /\ orders[last.oid].cancelledAt = Null

\* position of a status on the way PENDING .. DELIVERED
StatusRank(status) ==
    CASE status = "PENDING"    -> 1
      [] status = "CONFIRMED"  -> 2
      [] status = "PROCESSING" -> 3
      [] status = "SHIPPED"    -> 4
      [] status = "DELIVERED"  -> 5
      [] OTHER                 -> 0

\* C17: the stored status of an order changes only forward along PENDING,
\* CONFIRMED, PROCESSING, SHIPPED, DELIVERED, or to CANCELLED from PENDING or
\* CONFIRMED; a CANCELLED order keeps its status.
StatusMovesForward ==
    [][\A o \in DOMAIN orders :
          orders'[o].status # orders[o].status
          => \/ /\ orders[o].status # "CANCELLED"
                /\ orders'[o].status # "CANCELLED"
                /\ StatusRank(orders'[o].status) > StatusRank(orders[o].status)
             \/ /\ orders'[o].status = "CANCELLED"
                /\ orders[o].status \in {"PENDING", "CONFIRMED"} ]_vars

\* C18: the stored payment status of an order changes only from PENDING to
\* PAID, from PAID to REFUNDED, or from PENDING to FAILED.
PaymentStatusMovesForward ==
    [][\A o \in DOMAIN orders :
          orders'[o].paymentStatus # orders[o].paymentStatus
          => << orders[o].paymentStatus, orders'[o].paymentStatus >>
                \in { <<"PENDING", "PAID">>, <<"PAID", "REFUNDED">>,
                      <<"PENDING", "FAILED">> } ]_vars

\* C19: a status-transition timestamp of an order that has a value keeps it.
TimestampsSetOnce ==
    [][\A o \in DOMAIN orders :
          /\ orders[o].confirmedAt # Null => orders'[o].confirmedAt = orders[o].confirmedAt
          /\ orders[o].shippedAt # Null => orders'[o].shippedAt = orders[o].shippedAt
          /\ orders[o].deliveredAt # Null => orders'[o].deliveredAt = orders[o].deliveredAt
          /\ orders[o].cancelledAt # Null => orders'[o].cancelledAt = orders[o].cancelledAt
       ]_vars

\* usages committed for the orders of a user that were made with a coupon and
\* are not cancelled
LiveUses(c, u) ==
    LET live == { o \in DOMAIN orders :
                    /\ orders[o].couponUsed.couponId = c
                    /\ orders[o].userId = u
                    /\ orders[o].status # "CANCELLED" }
    IN  SumOver([o \in live |-> applied[o].coupon], live)

\* C20: cancelling an order made with a coupon gives the usage back: the
\* usages recorded on a coupon for a user are those committed for the user's
\* orders that are not cancelled.
CancelReturnsCouponUsage ==
    \A c \in DOMAIN coupons : \A u \in Users :
        userCouponUses(coupons[c], u) = LiveUses(c, u)

----------------------------------------------------------------------------
(* Properties of the sweep of abandoned orders *)

\* the sweep running in slot p takes the step
SweepStep(p) == loc[p].op = "cleanupPendingOrders" /\ Moves(p)

\* C21: a tick of the sweep reads exactly the gateway orders with payment
\* PENDING and status PENDING that are older than the cutoff, and a pass of
\* its loop that saves sets the order CANCELLED with payment FAILED and the
\* timeout reason; the sweep changes no stock and no coupon, and changes no
\* stored order that does not match the filter.
SweepCancelsOnlyAbandoned ==
    [][\A p \in Procs :
          /\ ( loc[p].op = "idle" /\ loc'[p].op = "cleanupPendingOrders" )
             => /\ \A o \in DOMAIN orders :
                      Abandoned(orders[o], CutoffTime(started))
                        <=> \E k \in DOMAIN loc'[p].found : loc'[p].found[k].oid = o
                /\ orders' = orders
                /\ products' = products
                /\ coupons' = coupons
          /\ SweepStep(p)
             => LET oid == loc[p].found[loc[p].i].oid
                IN  /\ products' = products
                    /\ coupons' = coupons
                    /\ last'.result = "cleaned"
                         => /\ orders'[oid].status = "CANCELLED"
                            /\ orders'[oid].paymentStatus = "FAILED"
                            /\ orders'[oid].failureReason = "Payment timeout"
                    /\ \A o \in DOMAIN orders :
                          orders'[o] # orders[o]
                            => /\ o = oid
                               /\ Abandoned(orders[o], CutoffTime(started)) ]_vars

\* the order matches the filter of the sweep now
StalePending(o) == Abandoned(orders[o], CutoffTime(started))

----------------------------------------------------------------------------
(* Properties of the stock ledger and of failed requests *)

\* C23: every stored product has totalStock equal to the sum of the stocks
\* of its variants.
TotalStockIsSumOfVariants ==
    \A id \in ProductIds :
        products[id].present
        => products[id].totalStock = TotalOf(products[id].stockVariants)

\* what the checks of pricing refuse: no item, a line without product id,
\* size or color, or with a quantity that is not positive, a product or a
\* variant that does not exist, a quantity above the stock, a coupon code
\* that names no active coupon
Unpriceable(items, couponCode) ==
    \/ Len(items) = 0
    \/ \E k \in DOMAIN items :
          \/ items[k].id = ""
          \/ items[k].size = ""
          \/ items[k].color = ""
          \/ items[k].quantity <= 0
          \/ items[k].id \notin DOMAIN products
          \/ ~products[items[k].id].present
          \/ VariantIndex(products[items[k].id], ParseFloat(items[k].size),
                          items[k].color) = 0
          \/ items[k].quantity > StockOf(products[items[k].id], items[k])
    \/ /\ couponCode # NoCode
       /\ \/ couponCode \notin DOMAIN coupons
          \/ ~coupons[couponCode].isActive

ValidationErrors ==
    { "EmptyOrder", "InvalidItem", "MissingSizeColor", "ProductNotFound",
      "NoStockConfig", "VariantNotFound", "InsufficientStock", "InvalidCoupon" }

\* the step stores nothing and leaves no handler running
Untouched ==
    /\ products' = products
    /\ coupons' = coupons
    /\ orders' = orders
    /\ applied' = applied
    /\ loc' = loc

\* C24: a checkout that pricing refuses, or whose payment signature does not
\* verify, ends at once with the error and stores nothing: no order, no
\* stock, no coupon usage; and pricing for a gateway payment changes nothing
\* even when it succeeds.
FailedCheckoutChangesNothing ==
    [][ started' = started + 1 =>
        \A ck \in Checkouts \cup RejectedCheckouts :
          LET refused == /\ last'.result \in ValidationErrors
                         /\ Untouched
              unsigned(gw) == gw.razorpaySignature
                                # Hmac(KeySecret, SignedBody(gw.razorpayOrderId,
                                                            gw.razorpayPaymentId))
          IN  \A p \in Procs, city \in ShippingCities, userId \in Buyers :
                CanBegin(p) =>
                  /\ IF Unpriceable(ck[1], ck[2])
                     THEN \/ refused
                          \/ /\ \A paymentMethod \in PaymentMethods,
                                   intentCreated \in BOOLEAN :
                                    ~createOrderRequest(p, ck[1], city, paymentMethod,
                                                        ck[2], userId, intentCreated)
                             /\ \A gw \in GatewayPayloads :
                                    ~verifyPayment(p, ck[1], city, ck[2], userId, gw)
                     ELSE \/ Untouched
                          \/ /\ \A intentCreated \in BOOLEAN :
                                    ~createOrderRequest(p, ck[1], city, "RAZORPAY",
                                                        ck[2], userId, intentCreated)
                             /\ \A gw \in GatewayPayloads :
                                    unsigned(gw)
                                      => ~verifyPayment(p, ck[1], city, ck[2], userId, gw)
                  /\ \A gw \in GatewayPayloads :
                        ( /\ ~Unpriceable(ck[1], ck[2])
                          /\ unsigned(gw)
                          /\ verifyPayment(p, ck[1], city, ck[2], userId, gw) )
                        => last'.result = "SignatureError" ]_vars

\* after an order was stored and its stock committed, a checkout asking for
\* more than the stock left was refused, and the store is as the order left it
FailedCheckoutChangesNothingWitness ==
    /\ last.op = "createOrder"
    /\ last.result = "InsufficientStock"
    /\ Len(orders) = 1
    /\ applied[1].dec[1] = 1
    /\ products["p1"].stockVariants[1].stock = InitialStock - 1
    /\ \A p \in Procs : loc[p].op = "idle"


----------------------------------------------------------------------------
(* Properties of the coupon types *)

\* C29: every accepted coupon is evaluated as its type prescribes, by the
\* order pricing and by the coupon's own calculateDiscount alike: a
\* FIXED_AMOUNT coupon gives the discount min(value, orderAmount) and no
\* discount on delivery; a FREE_SHIPPING coupon gives the delivery charge as
\* the discount on delivery and no other discount, so that a priced total
\* equals the subtotal.
CouponTypeReference ==
    ( /\ lastCalc.called
      /\ lastCalc.calc.ok
      /\ lastCalc.couponCode # NoCode )
    => LET calc   == lastCalc.calc
           coupon == lastCalc.coupon
       IN  /\ coupon.type = "FIXED_AMOUNT"
              => /\ calc.discountAmount = Min(coupon.value, calc.subtotal)
                 /\ calc.discountOnDelivery = 0
           /\ coupon.type = "FREE_SHIPPING"
              => /\ calc.discountOnDelivery = calc.deliveryCharge
                 /\ calc.discountAmount = 0
                 /\ "totalAmount" \in DOMAIN calc => calc.totalAmount = calc.subtotal

----------------------------------------------------------------------------
(* Properties of the payment signature *)

\* the payload carries the HMAC of its own identifiers under the shared secret
Signed(gw) ==
    gw.razorpaySignature
      = Hmac(KeySecret, SignedBody(gw.razorpayOrderId, gw.razorpayPaymentId))

\* handler p holds a gateway order it has marked PAID
HoldsPaid(l) ==
    /\ l.op \in {"createOrder", "confirmPayment"}
    /\ l.order.method = "RAZORPAY"
    /\ l.order.paymentStatus = "PAID"

\* C28: a gateway order is marked PAID only in a request whose payload
\* carried the HMAC of gatewayOrderId|gatewayPaymentId under the shared
\* secret: a handler comes to hold a PAID gateway order only when it begins,
\* and only as verifyPayment or confirmPayment with a signed payload; and
\* every step that stores a gateway order as PAID, or commits a stock
\* decrement of a gateway order, is a step of such a handler.
PaidOnlyWithValidSignature ==
    [][/\ \A p \in Procs :
            ( HoldsPaid(loc'[p]) /\ loc'[p] # loc[p] /\ ~HoldsPaid(loc[p]) )
            => /\ loc[p] = Idle
               /\ \E gw \in GatewayPayloads :
                    \/ confirmPaymentBegin(p, gw)
                    \/ \E ck \in Checkouts, city \in ShippingCities, userId \in Buyers :
                          verifyPayment(p, ck[1], city, ck[2], userId, gw)
               /\ \A gw \in GatewayPayloads :
                    ( \/ confirmPaymentBegin(p, gw)
                      \/ \E ck \in Checkouts, city \in ShippingCities, userId \in Buyers :
                            verifyPayment(p, ck[1], city, ck[2], userId, gw) )
                    => Signed(gw)
       /\ \A o \in DOMAIN orders' :
            ( /\ orders'[o].method = "RAZORPAY"
              /\ \/ /\ orders'[o].paymentStatus = "PAID"
                    /\ o \in DOMAIN orders => orders[o].paymentStatus # "PAID"
                 \/ /\ o \in DOMAIN applied
                    /\ \E i \in DOMAIN applied[o].dec :
                          applied'[o].dec[i] > applied[o].dec[i] )
            => \E p \in Procs :
                  /\ Moves(p)
                  /\ HoldsPaid(loc[p])
                  /\ loc[p].oid \in {0, o}]_vars

\* a gateway order confirmed with a signed payload: stored PAID, its stock
\* decrement committed
PaidOnlyWithValidSignatureWitness ==
    /\ last = Outcome("confirmPayment", 1, "ok")
    /\ orders[1].method = "RAZORPAY"
    /\ orders[1].paymentStatus = "PAID"
    /\ applied[1].dec[1] = 1
    /\ \A p \in Procs : loc[p] = Idle

----------------------------------------------------------------------------
(* Properties of the administrator's status update *)

\* the two implementations of the status update: the service's and the
\* controller's
AdminOps == {"updateOrderStatus", "updateOrderStatusRequest"}

Alone(p) == \A q \in Procs \ {p} : loc[q] = Idle

\* C25: an administrator's update of a PENDING or CONFIRMED order to
\* CANCELLED has the effects of the user's cancellation: the order is stored
\* CANCELLED, a PAID gateway order has been refunded and is stored REFUNDED,
\* and the stock of each line's variant has gone up by the line's quantity
\* (each pass of the reversion raises it, and at the save the committed
\* purchase of every line is back in stock).
AdminCancelActsLikeUserCancel ==
    [][\A p \in Procs :
          ( /\ loc[p].op \in AdminOps
            /\ loc[p].order.status = "CANCELLED"
            /\ Cancellable(loc[p].orig.status)
            /\ Moves(p)
            /\ Alone(p) )
          => LET o     == loc[p].oid
                 items == loc[p].order.items
             IN  /\ ( /\ loc[p].pc = "revert"
                      /\ applied[o].dec[loc[p].i] = 1
                      /\ products[items[loc[p].i].productId].present )
                    => /\ products'[items[loc[p].i].productId].present
                       /\ StockOf(products'[items[loc[p].i].productId], items[loc[p].i])
                            = StockOf(products[items[loc[p].i].productId], items[loc[p].i])
                                + items[loc[p].i].quantity
                 /\ loc[p].pc = "saveOrder"
                    => /\ orders'[o].status = "CANCELLED"
                       /\ ( /\ loc[p].orig.paymentStatus = "PAID"
                            /\ loc[p].orig.razorpayPaymentId # "" )
                          => /\ refunds[o] >= 1
                             /\ orders'[o].paymentStatus = "REFUNDED"
                       /\ \A i \in DOMAIN items :
                            ( /\ products[items[i].productId].present
                              /\ applied[o].dec[i] = 1 )
                            => LET k == VariantIndex(InitialProduct,
                                                     ParseFloat(items[i].size),
                                                     items[i].color)
                               IN  StockOf(products[items[i].productId], items[i])
                                     = InitialProduct.stockVariants[k].stock
                                         - CommittedQuantity(items[i].productId, k)
                                         + items[i].quantity]_vars

\* C26: an administrator's update with the target status REFUNDED succeeds
\* and stores the payment status REFUNDED; no step of it changes stock or
\* coupon usage, and no refund is asked of the gateway.
AdminRefundedOnlyMarksPayment ==
    [][\A p \in Procs :
          ( /\ loc[p].op \in AdminOps
            /\ loc[p].order.status = "REFUNDED"
            /\ Moves(p) )
          => /\ UNCHANGED <<products, coupons, refunds>>
             /\ loc'[p] = Idle
                => /\ last' = Outcome(loc[p].op, loc[p].oid, "ok")
                   /\ orders'[loc[p].oid].paymentStatus = "REFUNDED"]_vars

\* the step with which a cancellation ends after the gateway declined the
\* refund: the throw of the service's handlers, the save of the controller's
EndsAfterFailedRefund(p) ==
    /\ Moves(p)
    /\ \/ /\ loc[p].op \in {"cancelOrder", "updateOrderStatus"}
          /\ loc[p].pc = "refund"
          /\ refunds' = refunds
       \/ /\ loc[p].op = "updateOrderStatusRequest"
          /\ loc[p].pc = "saveOrder"
          /\ loc[p].order.status = "CANCELLED"
          /\ loc[p].order.paymentStatus = "PAID"
          /\ loc[p].orig.razorpayPaymentId # ""

----------------------------------------------------------------------------
(* Properties of the owner check *)

\* C30: a cancel request of a user who is not the owner of the order ends at
\* once with an error and changes nothing: the stored orders (status and
\* payment status), all stock and coupon usage stay as they are, no refund
\* is made and no handler is left running for the request.
NonOwnerCancelChangesNothing ==
    [][ started' = started + 1 =>
        \A p \in Procs, orderId \in DOMAIN orders, userId \in Users :
          ( /\ orders[orderId].userId # userId
            /\ \/ cancelOrderBegin(p, orderId, userId)
               \/ cancelOrderController(p, orderId, userId) )
          => /\ last'.oid = orderId
             /\ last'.result \in {"NotFoundOrNotOwner", "Forbidden"}
             /\ UNCHANGED <<orders, products, coupons, refunds, applied, loc>> ]_vars

\* a paid and confirmed order that another user has just tried to cancel
NonOwnerCancelChangesNothingWitness ==
    /\ last = Outcome("cancelOrder", 1, "NotFoundOrNotOwner")
    /\ orders[1].userId = "u1"
    /\ orders[1].status = "CONFIRMED"
    /\ orders[1].paymentStatus = "PAID"
    /\ refunds[1] = 0
    /\ \A p \in Procs : loc[p] = Idle

----------------------------------------------------------------------------
(* Properties of the stock ledger under cancellation and concurrency *)

\* the quantity of variant k of product id held by the orders whose stock
\* decrement is committed, each order line counted once
HeldQuantity(id, k) ==
    LET lines == { <<o, i>> \in (DOMAIN orders) \X (1..2) :
                     /\ i \in DOMAIN orders[o].items
                     /\ orders[o].items[i].productId = id
                     /\ VariantIndex(InitialProduct, ParseFloat(orders[o].items[i].size),
                                     orders[o].items[i].color) = k
                     /\ applied[o].dec[i] >= 1 }
    IN  SumOver([l \in lines |-> orders[l[1]].items[l[2]].quantity], lines)

\* C31: stock conservation: in every reachable state the stock of a variant
\* plus the quantities of the order lines whose decrement is committed
\* equals the variant's initial stock (no cancellation or status update of
\* the service ever stores a reversion, so a committed line stays committed).
StockConservation ==
    \A id \in ProductIds :
       products[id].present =>
         \A k \in DOMAIN products[id].stockVariants :
            products[id].stockVariants[k].stock + HeldQuantity(id, k)
               = InitialProduct.stockVariants[k].stock

\* C32: when the sweep and payment confirmations of a stale PENDING order
\* have interleaved and all of them have ended, the order is not stored as
\* CANCELLED with payment FAILED by timeout while a stock decrement or the
\* coupon usage of the order is committed.
SweptOrderHoldsNothing ==
    ( \A p \in Procs : loc[p] = Idle )
    => \A o \in DOMAIN orders :
          ( /\ orders[o].status = "CANCELLED"
            /\ orders[o].paymentStatus = "FAILED"
            /\ orders[o].failureReason = "Payment timeout" )
          => /\ \A i \in DOMAIN applied[o].dec : applied[o].dec[i] = 0
             /\ applied[o].coupon = 0

----------------------------------------------------------------------------
(* Properties of the verified payment *)

\* C33: a gateway payment confirms at most one order: no two stored orders
\* carry the same gateway order id, however often the verification of the
\* same signed payload is requested.
OnePaymentOneOrder ==
    \A o1, o2 \in DOMAIN orders :
       ( /\ orders[o1].razorpayOrderId # ""
         /\ orders[o1].razorpayOrderId = orders[o2].razorpayOrderId )
       => o1 = o2

\* C34: every stored gateway order that is PAID has the total of the payment
\* intent that was created and whose payment was verified: its totalAmount
\* in minor units is the amount of the intent.
PaidAmountIsIntentAmount ==
    \A o \in DOMAIN orders :
       ( /\ orders[o].method = "RAZORPAY"
         /\ orders[o].paymentStatus = "PAID" )
       => /\ lastCalc.called
          /\ AmountInPaise(orders[o].totalAmount)
               = AmountInPaise(lastCalc.calc.totalAmount)

----------------------------------------------------------------------------
(* Properties of refunds *)

\* C35: for every order a refund is initiated at most once, whatever the
\* sequence or interleaving of user cancellations and administrator updates
\* to CANCELLED: no handler asks the gateway for a refund of an order that
\* the gateway has already refunded.
RefundedAtMostOnce ==
    [][\A p \in Procs :
          ( loc[p].pc = "refund" /\ Moves(p) ) => refunds[loc[p].oid] = 0]_vars

----------------------------------------------------------------------------
(* The order controller that counts coupon usage (createOrder and
   updateOrderStatus next to cancelOrderController) *)

\* deliveryChargeSchema.freeDeliveryThreshold: default 0
FreeDeliveryThreshold == 0

\* DeliveryCharge.findOne({ city, state, isActive: true }) on the city as the
\* client wrote it; deliveryInfo ? deliveryInfo.charge : 50; free delivery if
\* deliveryInfo && subtotal >= deliveryInfo.freeDeliveryThreshold
deliveryChargeOfCity(city, subtotal) ==
    IF city \in DOMAIN DeliveryCharges
    THEN IF subtotal >= FreeDeliveryThreshold THEN 0 ELSE DeliveryCharges[city]
    ELSE DefaultDeliveryCharge

\* the first usedBy entry of the user: the element `usedBy.$` stands for in
\* an update filtered by 'usedBy.userId'
UsedByOf(coupon, userId) ==
    { k \in DOMAIN coupon.usedBy : coupon.usedBy[k].userId = userId }

FirstUsedBy(coupon, userId) ==
    CHOOSE k \in UsedByOf(coupon, userId) : \A j \in UsedByOf(coupon, userId) : k <= j

\* { $inc: { usageCount: 1 }, $addToSet: { usedBy: { userId, usageCount: 1,
\* lastUsed: new Date() } } }: the new element differs from every stored one
\* (its own _id and date), so it is always added
IncUsage(coupon, userId) ==
    [coupon EXCEPT !.usageCount = @ + 1,
                   !.usedBy = Append(@, [userId |-> userId, usageCount |-> 1])]

\* updateOne({ _id, 'usedBy.userId': userId }, { $inc: { 'usedBy.$.usageCount': by } });
\* no entry of the user: nothing matches
IncUserUsage(coupon, userId, by) ==
    IF UsedByOf(coupon, userId) = {} THEN coupon
    ELSE [coupon EXCEPT !.usedBy[FirstUsedBy(coupon, userId)].usageCount = @ + by]

\* { $inc: { usageCount: -1 } }
DecUsage(coupon) == [coupon EXCEPT !.usageCount = @ - 1]

\* requests to the controller: priced carts, no item, an unknown product
ControllerCheckouts ==
    Checkouts \cup { << <<>>, NoCode >>,
                     << << [Item("42", "red", 1) EXCEPT !.id = "p9"] >>, NoCode >> }

ControllerStatusInputs == {"Shipped", "Cancelled"}

\* createOrder up to the coupon updates: items, delivery charge, coupon
calculateOrderOfController(items, city, couponCode, userId, now) ==
    LET known    == \A k \in DOMAIN items : items[k].id \in ProductIds
        subtotal == IF known THEN Subtotal(items) ELSE 0
        delivery == deliveryChargeOfCity(city, subtotal)
        hasCode  == couponCode # NoCode
        code     == CodeToUpperCase(couponCode)
        found    == hasCode /\ code \in DOMAIN coupons /\ coupons[code].isActive
        coupon   == coupons[code]
        result   == calculateDiscount(coupon, subtotal, delivery, now)
        error    == IF items = <<>> THEN "ItemsRequired"
                    ELSE IF ~known THEN "ProductNotFound"
                    ELSE IF ~hasCode THEN ""
                    ELSE IF ~found THEN "InvalidCoupon"
                    ELSE IF ~canUserUseCoupon(coupon, userId, now) THEN "UsageLimit"
                    ELSE result.error
        discount == IF hasCode /\ error = "" THEN result.discount ELSE 0
        onDeliv  == IF hasCode /\ error = "" THEN result.discountOnDelivery ELSE 0
    IN  [ ok                 |-> error = "",
          error              |-> error,
          items              |-> IF known THEN validatedItems(items) ELSE <<>>,
          subtotal           |-> subtotal,
          deliveryCharge     |-> delivery,
          discountAmount     |-> discount,
          \* orderData.discountedDeliveryCharge is no path of the schema
          discountOnDelivery |-> 0,
          totalAmount        |-> Max(0, subtotal - discount) + Max(0, delivery - onDeliv),
          couponUsed         |-> IF hasCode /\ error = ""
                                 THEN [ couponId |-> coupon.code, type |-> coupon.type,
                                        value |-> coupon.value,
                                        discountAmount |-> discount,
                                        discountOnDelivery |-> onDeliv ]
                                 ELSE NoCouponUsed ]

\* the order document: no payment sub-document (paymentMethod and
\* paymentStatus are no paths of the schema)
OrderDocOfController(userId, calc) ==
    [OrderDoc(userId, calc, "") EXCEPT !.paymentStatus = ""]

createOrderControllerBegin(p, items, city, couponCode, userId) ==
    LET calc == calculateOrderOfController(items, city, couponCode, userId, RequestTime)
    IN  /\ CanBegin(p)
        /\ Len(orders) + InFlight("createOrder") + InFlight("createOrderController")
              < MaxOrders
        /\ started' = started + 1
        /\ IF ~calc.ok
           THEN /\ loc' = loc
                /\ last' = Outcome("createOrderController", 0, calc.error)
           ELSE /\ loc' = [loc EXCEPT ![p] =
                      [Idle EXCEPT !.op = "createOrderController",
                                   !.pc = IF HasCoupon(calc.couponUsed)
                                          THEN "incUsage" ELSE "saveOrder",
                                   !.userId = userId, !.calc = calc,
                                   !.order = OrderDocOfController(userId, calc)]]
                /\ last' = NoOutcome
        /\ UNCHANGED <<products, coupons, orders, lastCalc, applied, refunds>>

\* await Coupon.findByIdAndUpdate(coupon._id, { $inc, $addToSet })
createOrderControllerIncUsage(p) ==
    /\ loc[p].op = "createOrderController"
    /\ loc[p].pc = "incUsage"
    /\ coupons' = [coupons EXCEPT ![loc[p].calc.couponUsed.couponId] =
                      IncUsage(@, loc[p].userId)]
    /\ loc' = [loc EXCEPT ![p].pc = "incUser"]
    /\ UNCHANGED <<products, orders, lastCalc, last, applied, refunds, started>>

\* await Coupon.updateOne({ _id, 'usedBy.userId': userId }, { $inc, $set })
createOrderControllerIncUser(p) ==
    /\ loc[p].op = "createOrderController"
    /\ loc[p].pc = "incUser"
    /\ coupons' = [coupons EXCEPT ![loc[p].calc.couponUsed.couponId] =
                      IncUserUsage(@, loc[p].userId, 1)]
    /\ loc' = [loc EXCEPT ![p].pc = "saveOrder"]
    /\ UNCHANGED <<products, orders, lastCalc, last, applied, refunds, started>>

\* await order.save()
createOrderControllerSave(p) ==
    /\ loc[p].op = "createOrderController"
    /\ loc[p].pc = "saveOrder"
    /\ orders' = Append(orders, [loc[p].order EXCEPT !.createdAt = started])
    /\ applied' = Append(applied, NoneApplied(loc[p].order.items))
    /\ refunds' = Append(refunds, 0)
    /\ loc' = [loc EXCEPT ![p] = Idle]
    /\ last' = Outcome("createOrderController", Len(orders) + 1, "ok")
    /\ UNCHANGED <<products, coupons, lastCalc, started>>

\* updateOrderStatus: order.orderStatus = status is no path of the schema;
\* the dates of Shipped, Delivered and Cancelled are
StampedByController(order, status, now) ==
    CASE status = "Shipped"   -> [order EXCEPT !.shippedAt = now]
      [] status = "Delivered" -> [order EXCEPT !.deliveredAt = now]
      [] status = "Cancelled" -> [order EXCEPT !.cancelledAt = now]
      [] OTHER                -> order

\* Order.findById; the dates; the coupon usage is given back whenever the
\* status sent is Cancelled and the order has a coupon
updateOrderStatusControllerBegin(p, orderId, status) ==
    /\ CanBegin(p)
    /\ started' = started + 1
    /\ IF orderId \notin DOMAIN orders
       THEN /\ loc' = loc
            /\ last' = Outcome("updateOrderStatusController", orderId, "NotFound")
       ELSE /\ loc' = [loc EXCEPT ![p] =
                  [Idle EXCEPT !.op = "updateOrderStatusController",
                               !.pc = IF /\ status = "Cancelled"
                                         /\ HasCoupon(orders[orderId].couponUsed)
                                      THEN "decUsage" ELSE "saveOrder",
                               !.oid = orderId,
                               !.orig = orders[orderId],
                               !.order = StampedByController(orders[orderId], status,
                                                             RequestTime)]]
            /\ last' = NoOutcome
    /\ UNCHANGED <<products, coupons, orders, lastCalc, applied, refunds>>

\* await Coupon.findByIdAndUpdate(couponId, { $inc: { usageCount: -1 } })
updateOrderStatusControllerDecUsage(p) ==
    /\ loc[p].op = "updateOrderStatusController"
    /\ loc[p].pc = "decUsage"
    /\ coupons' = [coupons EXCEPT ![loc[p].order.couponUsed.couponId] = DecUsage(@)]
    /\ loc' = [loc EXCEPT ![p].pc = "decUser"]
    /\ UNCHANGED <<products, orders, lastCalc, last, applied, refunds, started>>

\* await Coupon.updateOne({ _id, 'usedBy.userId': order.userId }, { $inc: -1 })
updateOrderStatusControllerDecUser(p) ==
    /\ loc[p].op = "updateOrderStatusController"
    /\ loc[p].pc = "decUser"
    /\ coupons' = [coupons EXCEPT ![loc[p].order.couponUsed.couponId] =
                      IncUserUsage(@, loc[p].order.userId, -1)]
    /\ loc' = [loc EXCEPT ![p].pc = "saveOrder"]
    /\ UNCHANGED <<products, orders, lastCalc, last, applied, refunds, started>>

\* await order.save()
updateOrderStatusControllerSave(p) ==
    /\ loc[p].op = "updateOrderStatusController"
    /\ loc[p].pc = "saveOrder"
    /\ orders' = [orders EXCEPT ![loc[p].oid] =
                     SaveModified(@, loc[p].orig, loc[p].order)]
    /\ Finish(p, "ok")
    /\ UNCHANGED <<products, coupons, lastCalc, applied, refunds, started>>

\* The store of the coupon-counting controller before any order
InitController ==
    /\ products = [id \in ProductIds |-> InitialProduct]
    /\ \E c \in StoreCoupons : coupons = [code \in CouponCodes |-> c]
    /\ orders = <<>>
    /\ applied = <<>>
    /\ refunds = <<>>
    /\ loc = [p \in Procs |-> Idle]
    /\ lastCalc = NotPriced
    /\ last = NoOutcome
    /\ started = 0

\* The store after u1 placed one order with the coupon through the
\* controller (one line of the first variant, shipped to Pune, at time 1)
InitControllerPlaced ==
    /\ products = [id \in ProductIds |-> InitialProduct]
    /\ \E c \in StoreCoupons :
         LET price    == InitialProduct.price
             delivery == deliveryChargeOfCity("Pune", price)
             result   == calculateDiscount(c, price, delivery, 1)
         IN  /\ coupons = [code \in CouponCodes |->
                              IncUserUsage(IncUsage(c, "u1"), "u1", 1)]
             /\ orders = << [ OrderDocOfController("u1",
                    [ items |-> << [ productId |-> "p1", size |-> "42",
                                     color |-> "red", quantity |-> 1,
                                     price |-> price ] >>,
                      subtotal |-> price,
                      deliveryCharge |-> delivery,
                      discountAmount |-> result.discount,
                      discountOnDelivery |-> 0,
                      totalAmount |-> Max(0, price - result.discount)
                                      + Max(0, delivery - result.discountOnDelivery),
                      couponUsed |-> [ couponId |-> c.code, type |-> c.type,
                                       value |-> c.value,
                                       discountAmount |-> result.discount,
                                       discountOnDelivery |->
                                           result.discountOnDelivery ] ])
                    EXCEPT !.createdAt = 0 ] >>
    /\ applied = << NoneApplied(<< 1 >>) >>
    /\ refunds = << 0 >>
    /\ loc = [p \in Procs |-> Idle]
    /\ lastCalc = NotPriced
    /\ last = NoOutcome
    /\ started = 0

NextController ==
    \/ \E p \in Procs, c \in ControllerCheckouts, city \in ShippingCities,
          userId \in Users :
          createOrderControllerBegin(p, c[1], city, c[2], userId)
    \/ \E p \in Procs : createOrderControllerIncUsage(p)
    \/ \E p \in Procs : createOrderControllerIncUser(p)
    \/ \E p \in Procs : createOrderControllerSave(p)
    \/ \E p \in Procs, orderId \in 1..MaxOrders, status \in ControllerStatusInputs :
          updateOrderStatusControllerBegin(p, orderId, status)
    \/ \E p \in Procs : updateOrderStatusControllerDecUsage(p)
    \/ \E p \in Procs : updateOrderStatusControllerDecUser(p)
    \/ \E p \in Procs : updateOrderStatusControllerSave(p)
    \/ \E p \in Procs, orderId \in 1..MaxOrders, userId \in Users :
          cancelOrderController(p, orderId, userId)

SpecController == InitController /\ [][NextController]_vars

SpecControllerPlaced == InitControllerPlaced /\ [][NextController]_vars

----------------------------------------------------------------------------
(* Properties of the coupon usage counters *)

PerUserUsage(coupon) ==
    SumSeq([k \in DOMAIN coupon.usedBy |-> coupon.usedBy[k].usageCount])

\* C36: whenever no request is in progress, the global usage count of every
\* coupon equals the sum of the usage counts of its usedBy entries
GlobalUsageIsSumOfUserUsage ==
    (\A p \in Procs : loc[p].op = "idle")
        => \A code \in CouponCodes :
              coupons[code].usageCount = PerUserUsage(coupons[code])

\* C37: the global usage count of a coupon and the usage count of each of
\* its usedBy entries are never negative
UsageCountsNotNegative ==
    \A code \in CouponCodes :
        /\ coupons[code].usageCount >= 0
        /\ \A k \in DOMAIN coupons[code].usedBy :
              coupons[code].usedBy[k].usageCount >= 0

----------------------------------------------------------------------------
(* Properties of the stored stock *)

\* C38: the stored stock of every variant of every product is at least 0 in
\* every state, whatever the interleaving of order creations, payment
\* confirmations and cancellations
StoredStockNotNegative ==
    \A id \in ProductIds :
        products[id].present =>
            \A k \in DOMAIN products[id].stockVariants :
                products[id].stockVariants[k].stock >= 0

\* a decrement that would have taken a sold-out variant below zero was
\* refused by the save
StoredStockNotNegativeWitness ==
    /\ last.result = "ValidationError"
    /\ \E id \in ProductIds :
          /\ products[id].present
          /\ \E k \in DOMAIN products[id].stockVariants :
                products[id].stockVariants[k].stock = 0

----------------------------------------------------------------------------
(* Properties of the two coupon evaluations *)

\* C39: on every priced cart with an active coupon, the evaluation inside
\* validateAndCalculateOrder and the coupon's own canUserUseCoupon followed
\* by calculateDiscount, given the same coupon, subtotal, delivery charge,
\* user and time, both accept or both reject, and when they accept they give
\* the same discount and the same discount on delivery
CouponEvaluationsAgree ==
    ( /\ lastCalc.called
      /\ Len(lastCalc.items) > 0
      /\ FirstItemError(lastCalc.items) = ""
      /\ lastCalc.couponCode # NoCode
      /\ lastCalc.coupon.isActive )
    => LET calc     == lastCalc.calc
           coupon   == lastCalc.coupon
           subtotal == Subtotal(lastCalc.items)
           delivery == IF calc.ok THEN calc.deliveryCharge ELSE DefaultDeliveryCharge
           byModel  == calculateDiscount(coupon, subtotal, delivery, lastCalc.now)
           accepted == /\ canUserUseCoupon(coupon, lastCalc.userId, lastCalc.now)
                       /\ byModel.error = ""
       IN  /\ calc.ok <=> accepted
           /\ calc.ok => /\ calc.discountAmount = byModel.discount
                         /\ calc.discountOnDelivery = byModel.discountOnDelivery

============================================================================
